---- MODULE Spec2Model ----
(***************************************************************************)
(* Quota and credit ledger of signature-ai (src/lib/quotaStore.ts).        *)
(*                                                                         *)
(* The ledger lives in Redis: one hash per user (freeUsed, paidCredits,    *)
(* createdAt, updatedAt), one set of redeemed codes per user, one hash per *)
(* redeem code.  Request handlers run concurrently in one Node process;    *)
(* every `await` is a point where another handler may run, and every       *)
(* redis.eval script runs atomically in the store.                         *)
(***************************************************************************)
EXTENDS Integers, Sequences, FiniteSets, TLC

FREE_QUOTA_LIMIT == 8

\* ---------------------------------------------------------------- bounds
Users == {"u1", "u2"}
Procs == {"p1", "p2"}
\* grantPaidCredits / refund('paid') are not issued beyond this many paid credits
MaxPaid == 1
\* the wall clock stops advancing here (later calls share one timestamp)
MaxClock == 2
\* a watched run of consume calls stops being extended after this many denials
MaxDenied == 2

VARIABLES
    user,         \* userId -> the user hash  (quotaStore.ts userKey)
    redeemed,     \* userId -> set of codes   (quotaStore.ts userRedeemSetKey)
    code,         \* code   -> the code hash  (quotaStore.ts codeKey)
    initialized,  \* the process-wide seeding latch
    clock,        \* what nowIso() returns
    proc,         \* request handler -> its position inside a multi-step call
    ret,          \* the value an engine call returned in the step just taken
    watch,        \* the observer: what is recorded, and the consume run it follows
    conn          \* the store connection module: client, connectPromise, callers

vars == <<user, redeemed, code, initialized, clock, proc, ret, watch, conn>>

\* ------------------------------------------------------------ pure helpers
Max(a, b) == IF a >= b THEN a ELSE b

\* a Redis key that does not exist: every HGET yields nil
NoUser == [exists |-> FALSE, freeUsed |-> 0, paidCredits |-> 0,
           createdAt |-> 0, updatedAt |-> 0]

\* tonumber(redis.call('HGET', key, field) or '0')
HGetNum(rec, field) == IF rec.exists THEN rec[field] ELSE 0

snapshotFromValues(freeUsed, paidCredits) ==
    LET freeRemaining == Max(0, FREE_QUOTA_LIMIT - freeUsed)
        paidRemaining == Max(0, paidCredits)
    IN  [freeRemaining |-> freeRemaining,
         paidRemaining |-> paidRemaining,
         totalRemaining |-> freeRemaining + paidRemaining]

\* the quota object the engine builds from a script reply {.., free, paid}
QuotaOf(freeRemaining, paidRemaining) ==
    [freeRemaining |-> freeRemaining,
     paidRemaining |-> paidRemaining,
     totalRemaining |-> freeRemaining + paidRemaining]

\* HSET key freeUsed .. paidCredits .. updatedAt now ; HSETNX key createdAt now
WriteUser(rec, freeUsed, paidCredits, now) ==
    [exists |-> TRUE, freeUsed |-> freeUsed, paidCredits |-> paidCredits,
     createdAt |-> IF rec.exists THEN rec.createdAt ELSE now,
     updatedAt |-> now]

\* ---- slips of the consume script, used to test what the claims rest on
\* the allowed path reports success but writes the old counters back
ConsumeScript_LostWrite(rec, now) ==
    LET freeUsed == HGetNum(rec, "freeUsed")
        paidCredits == HGetNum(rec, "paidCredits")
        freeRemaining == Max(0, FREE_QUOTA_LIMIT - freeUsed)
    IN  IF freeRemaining + paidCredits <= 0
        THEN [rec |-> rec,
              reply |-> [flag |-> 0, from |-> "none",
                         free |-> freeRemaining, paid |-> paidCredits]]
        ELSE [rec |-> WriteUser(rec, freeUsed, paidCredits, now),
              reply |-> [flag |-> 1,
                         from |-> IF freeRemaining > 0 THEN "free" ELSE "paid",
                         free |-> freeRemaining, paid |-> paidCredits]]

\* the exhausted test reads `< 0` instead of `<= 0`
ConsumeScript_OffByOne(rec, now) ==
    LET freeUsed == HGetNum(rec, "freeUsed")
        paidCredits == HGetNum(rec, "paidCredits")
        freeRemaining == Max(0, FREE_QUOTA_LIMIT - freeUsed)
    IN  IF freeRemaining + paidCredits < 0
        THEN [rec |-> rec,
              reply |-> [flag |-> 0, from |-> "none",
                         free |-> freeRemaining, paid |-> paidCredits]]
        ELSE LET newFree == IF freeRemaining > 0 THEN freeUsed + 1 ELSE freeUsed
                 newPaid == IF freeRemaining > 0 THEN paidCredits ELSE paidCredits - 1
                 from    == IF freeRemaining > 0 THEN "free" ELSE "paid"
             IN  [rec |-> WriteUser(rec, newFree, newPaid, now),
                  reply |-> [flag |-> 1, from |-> from,
                             free |-> Max(0, FREE_QUOTA_LIMIT - newFree),
                             paid |-> newPaid]]

\* paid credits are debited first whenever there are any
ConsumeScript_PaidFirst(rec, now) ==
    LET freeUsed == HGetNum(rec, "freeUsed")
        paidCredits == HGetNum(rec, "paidCredits")
        freeRemaining == Max(0, FREE_QUOTA_LIMIT - freeUsed)
    IN  IF freeRemaining + paidCredits <= 0
        THEN [rec |-> rec,
              reply |-> [flag |-> 0, from |-> "none",
                         free |-> freeRemaining, paid |-> paidCredits]]
        ELSE LET newFree == IF paidCredits > 0 THEN freeUsed ELSE freeUsed + 1
                 newPaid == IF paidCredits > 0 THEN paidCredits - 1 ELSE paidCredits
                 from    == IF paidCredits > 0 THEN "paid" ELSE "free"
             IN  [rec |-> WriteUser(rec, newFree, newPaid, now),
                  reply |-> [flag |-> 1, from |-> from,
                             free |-> Max(0, FREE_QUOTA_LIMIT - newFree),
                             paid |-> newPaid]]

\* the HSET is done before the exhausted test, so a denied call touches updatedAt
ConsumeScript_DenyTouches(rec, now) ==
    LET freeUsed == HGetNum(rec, "freeUsed")
        paidCredits == HGetNum(rec, "paidCredits")
        freeRemaining == Max(0, FREE_QUOTA_LIMIT - freeUsed)
    IN  IF freeRemaining + paidCredits <= 0
        THEN [rec |-> WriteUser(rec, freeUsed, paidCredits, now),
              reply |-> [flag |-> 0, from |-> "none",
                         free |-> freeRemaining, paid |-> paidCredits]]
        ELSE LET newFree == IF freeRemaining > 0 THEN freeUsed + 1 ELSE freeUsed
                 newPaid == IF freeRemaining > 0 THEN paidCredits ELSE paidCredits - 1
                 from    == IF freeRemaining > 0 THEN "free" ELSE "paid"
             IN  [rec |-> WriteUser(rec, newFree, newPaid, now),
                  reply |-> [flag |-> 1, from |-> from,
                             free |-> Max(0, FREE_QUOTA_LIMIT - newFree),
                             paid |-> newPaid]]

\* the reply carries the free remainder computed before the debit
ConsumeScript_StaleReply(rec, now) ==
    LET freeUsed == HGetNum(rec, "freeUsed")
        paidCredits == HGetNum(rec, "paidCredits")
        freeRemaining == Max(0, FREE_QUOTA_LIMIT - freeUsed)
    IN  IF freeRemaining + paidCredits <= 0
        THEN [rec |-> rec,
              reply |-> [flag |-> 0, from |-> "none",
                         free |-> freeRemaining, paid |-> paidCredits]]
        ELSE LET newFree == IF freeRemaining > 0 THEN freeUsed + 1 ELSE freeUsed
                 newPaid == IF freeRemaining > 0 THEN paidCredits ELSE paidCredits - 1
                 from    == IF freeRemaining > 0 THEN "free" ELSE "paid"
             IN  [rec |-> WriteUser(rec, newFree, newPaid, now),
                  reply |-> [flag |-> 1, from |-> from,
                             free |-> freeRemaining,
                             paid |-> newPaid]]

\* The Lua script of consumeGenerationCredit: the user hash it leaves and its reply.
ConsumeScript(rec, now) ==
    LET freeUsed == HGetNum(rec, "freeUsed")
        paidCredits == HGetNum(rec, "paidCredits")
        freeRemaining == Max(0, FREE_QUOTA_LIMIT - freeUsed)
    IN  IF freeRemaining + paidCredits <= 0
        THEN [rec |-> rec,
              reply |-> [flag |-> 0, from |-> "none",
                         free |-> freeRemaining, paid |-> paidCredits]]
        ELSE LET newFree == IF freeRemaining > 0 THEN freeUsed + 1 ELSE freeUsed
                 newPaid == IF freeRemaining > 0 THEN paidCredits ELSE paidCredits - 1
                 from    == IF freeRemaining > 0 THEN "free" ELSE "paid"
             IN  [rec |-> WriteUser(rec, newFree, newPaid, now),
                  reply |-> [flag |-> 1, from |-> from,
                             free |-> Max(0, FREE_QUOTA_LIMIT - newFree),
                             paid |-> newPaid]]

\* ---- slips of the refund script
\* freeUsed is decremented without the clamp at 0
RefundScript_NoClamp(rec, from, now) ==
    LET freeUsed == HGetNum(rec, "freeUsed")
        paidCredits == HGetNum(rec, "paidCredits")
        newFree == IF from = "free" THEN freeUsed - 1 ELSE freeUsed
        newPaid == IF from = "free" THEN paidCredits ELSE paidCredits + 1
    IN  [rec |-> WriteUser(rec, newFree, newPaid, now),
         reply |-> [free |-> Max(0, FREE_QUOTA_LIMIT - newFree), paid |-> newPaid]]

\* the bucket argument is ignored: every refund goes to the free bucket
RefundScript_AlwaysFree(rec, from, now) ==
    LET freeUsed == HGetNum(rec, "freeUsed")
        paidCredits == HGetNum(rec, "paidCredits")
        newFree == Max(0, freeUsed - 1)
    IN  [rec |-> WriteUser(rec, newFree, paidCredits, now),
         reply |-> [free |-> Max(0, FREE_QUOTA_LIMIT - newFree), paid |-> paidCredits]]

\* a 'paid' refund also gives a free unit back
RefundScript_BothBuckets(rec, from, now) ==
    LET freeUsed == HGetNum(rec, "freeUsed")
        paidCredits == HGetNum(rec, "paidCredits")
        newFree == Max(0, freeUsed - 1)
        newPaid == IF from = "free" THEN paidCredits ELSE paidCredits + 1
    IN  [rec |-> WriteUser(rec, newFree, newPaid, now),
         reply |-> [free |-> Max(0, FREE_QUOTA_LIMIT - newFree), paid |-> newPaid]]

\* The Lua script of refundGenerationCredit.
RefundScript(rec, from, now) ==
    LET freeUsed == HGetNum(rec, "freeUsed")
        paidCredits == HGetNum(rec, "paidCredits")
        newFree == IF from = "free" THEN Max(0, freeUsed - 1) ELSE freeUsed
        newPaid == IF from = "free" THEN paidCredits ELSE paidCredits + 1
    IN  [rec |-> WriteUser(rec, newFree, newPaid, now),
         reply |-> [free |-> Max(0, FREE_QUOTA_LIMIT - newFree), paid |-> newPaid]]

\* ---- slips of the grant script
\* the grant starts the account afresh
GrantScript_ResetsFree(rec, delta, now) ==
    LET paidCredits == HGetNum(rec, "paidCredits") + delta
    IN  [rec |-> WriteUser(rec, 0, paidCredits, now),
         reply |-> [free |-> FREE_QUOTA_LIMIT, paid |-> paidCredits]]

\* the grant sets the balance instead of adding to it
GrantScript_Overwrites(rec, delta, now) ==
    LET freeUsed == HGetNum(rec, "freeUsed")
    IN  [rec |-> WriteUser(rec, freeUsed, delta, now),
         reply |-> [free |-> Max(0, FREE_QUOTA_LIMIT - freeUsed), paid |-> delta]]

\* The Lua script of grantPaidCredits.
GrantScript(rec, delta, now) ==
    LET freeUsed == HGetNum(rec, "freeUsed")
        paidCredits == HGetNum(rec, "paidCredits") + delta
    IN  [rec |-> WriteUser(rec, freeUsed, paidCredits, now),
         reply |-> [free |-> Max(0, FREE_QUOTA_LIMIT - freeUsed), paid |-> paidCredits]]


\* ------------------------------------------------------------------ codes
\* Raw code strings are sequences of characters.
IsSpace(ch) == ch = " "

Upper(ch) ==
    CASE ch = "a" -> "A"
      [] ch = "s" -> "S"
      [] OTHER -> ch

RECURSIVE TrimStart(_)
TrimStart(str) ==
    IF str = <<>> THEN <<>>
    ELSE IF IsSpace(Head(str)) THEN TrimStart(Tail(str)) ELSE str

RECURSIVE TrimEnd(_)
TrimEnd(str) ==
    IF str = <<>> THEN <<>>
    ELSE IF IsSpace(str[Len(str)]) THEN TrimEnd(SubSeq(str, 1, Len(str) - 1)) ELSE str

\* the code is trimmed and left in the case it was typed in
normalizeCode_NoUpper(rawCode) == TrimEnd(TrimStart(rawCode))

\* rawCode.trim().toUpperCase()
normalizeCode(rawCode) ==
    LET t == TrimEnd(TrimStart(rawCode))
    IN  [k \in 1..Len(t) |-> Upper(t[k])]

\* raw codes that callers submit
RawCodes == { <<"S">>, <<" ", "a">>, <<" ">> }

\* the code keys the store can hold
Codes == { normalizeCode(r) : r \in RawCodes } \ { <<>> }

\* generateCode(): some string over the generator's alphabet
GeneratedCodes == { <<"A">> }

\* the strings generateCode may give to the calls of one batch
BatchCodes == { <<"A">>, <<"B">>, <<"C">> }
AllCodes == Codes \cup BatchCodes

\* process.env.REDEEM_CODES_5 / _10 / _20, split at the commas
REDEEM_CODES_5 == << <<"s">> >>
REDEEM_CODES_10 == << >>
REDEEM_CODES_20 == << >>

\* parseSeedCodeList: normalize every item, drop the empty ones
RECURSIVE parseSeedCodeList(_)
parseSeedCodeList(items) ==
    IF items = <<>> THEN <<>>
    ELSE LET c == normalizeCode(Head(items))
         IN  IF c = <<>> THEN parseSeedCodeList(Tail(items))
             ELSE <<c>> \o parseSeedCodeList(Tail(items))

SeedEntries(credits, codes) ==
    [k \in 1..Len(codes) |-> [code |-> codes[k], credits |-> credits]]

\* the (code, credits) pairs seedCodesFromEnv walks through, in order
SeedList ==
    SeedEntries(5, parseSeedCodeList(REDEEM_CODES_5))
        \o SeedEntries(10, parseSeedCodeList(REDEEM_CODES_10))
        \o SeedEntries(20, parseSeedCodeList(REDEEM_CODES_20))

NoCode == [exists |-> FALSE, credits |-> 0, maxUses |-> 0, usedCount |-> 0,
           active |-> 0, createdAt |-> 0, updatedAt |-> 0]

\* redis.hSet(key, {code, credits, maxUses, usedCount: '0', active, createdAt, updatedAt})
NewCode(credits, maxUses, active, ts) ==
    [exists |-> TRUE, credits |-> credits, maxUses |-> maxUses, usedCount |-> 0,
     active |-> active, createdAt |-> ts, updatedAt |-> ts]

isTruthy(value) == value = 1

ErrInvalid   == "invalid_or_expired"   \* code missing or inactive
ErrAlready   == "already_used"         \* this user redeemed it before
ErrExhausted == "exhausted"            \* usedCount >= maxUses
ErrEmpty     == "empty_code"           \* nothing left after normalizing
ErrExists    == "already_exists"       \* createRedeemCode on an existing code
ErrNotFound  == "not_found"            \* setRedeemCodeActive on a missing code
ErrStore     == "store_unavailable"    \* a store command rejected: the call throws

\* ---- slips of the redeem script
\* the SISMEMBER test is missing
RedeemScript_NoMemberCheck(urec, uset, crec, c, now) ==
    LET fail(msg) == [user |-> urec, set |-> uset, code |-> crec,
                      reply |-> [flag |-> 0, error |-> msg, free |-> 0, paid |-> 0]]
    IN  IF ~crec.exists THEN fail(ErrInvalid)
        ELSE IF HGetNum(crec, "active") # 1 THEN fail(ErrInvalid)
        ELSE IF HGetNum(crec, "usedCount") >= HGetNum(crec, "maxUses")
             THEN fail(ErrExhausted)
        ELSE LET credits == HGetNum(crec, "credits")
                 freeUsed == HGetNum(urec, "freeUsed")
                 paidCredits == HGetNum(urec, "paidCredits") + credits
             IN  [user |-> WriteUser(urec, freeUsed, paidCredits, now),
                  set |-> uset \cup {c},
                  code |-> [crec EXCEPT !.usedCount = @ + 1, !.updatedAt = now],
                  reply |-> [flag |-> 1, error |-> "",
                             free |-> Max(0, FREE_QUOTA_LIMIT - freeUsed),
                             paid |-> paidCredits]]

\* the usedCount >= maxUses test is missing
RedeemScript_NoCapCheck(urec, uset, crec, c, now) ==
    LET fail(msg) == [user |-> urec, set |-> uset, code |-> crec,
                      reply |-> [flag |-> 0, error |-> msg, free |-> 0, paid |-> 0]]
    IN  IF ~crec.exists THEN fail(ErrInvalid)
        ELSE IF HGetNum(crec, "active") # 1 THEN fail(ErrInvalid)
        ELSE IF c \in uset THEN fail(ErrAlready)
        ELSE LET credits == HGetNum(crec, "credits")
                 freeUsed == HGetNum(urec, "freeUsed")
                 paidCredits == HGetNum(urec, "paidCredits") + credits
             IN  [user |-> WriteUser(urec, freeUsed, paidCredits, now),
                  set |-> uset \cup {c},
                  code |-> [crec EXCEPT !.usedCount = @ + 1, !.updatedAt = now],
                  reply |-> [flag |-> 1, error |-> "",
                             free |-> Max(0, FREE_QUOTA_LIMIT - freeUsed),
                             paid |-> paidCredits]]

\* the user hash is written with freeUsed 0 instead of the value read
RedeemScript_ResetsFree(urec, uset, crec, c, now) ==
    LET fail(msg) == [user |-> urec, set |-> uset, code |-> crec,
                      reply |-> [flag |-> 0, error |-> msg, free |-> 0, paid |-> 0]]
    IN  IF ~crec.exists THEN fail(ErrInvalid)
        ELSE IF HGetNum(crec, "active") # 1 THEN fail(ErrInvalid)
        ELSE IF c \in uset THEN fail(ErrAlready)
        ELSE IF HGetNum(crec, "usedCount") >= HGetNum(crec, "maxUses")
             THEN fail(ErrExhausted)
        ELSE LET credits == HGetNum(crec, "credits")
                 paidCredits == HGetNum(urec, "paidCredits") + credits
             IN  [user |-> WriteUser(urec, 0, paidCredits, now),
                  set |-> uset \cup {c},
                  code |-> [crec EXCEPT !.usedCount = @ + 1, !.updatedAt = now],
                  reply |-> [flag |-> 1, error |-> "",
                             free |-> FREE_QUOTA_LIMIT,
                             paid |-> paidCredits]]

\* the active flag is not looked at
RedeemScript_NoActiveCheck(urec, uset, crec, c, now) ==
    LET fail(msg) == [user |-> urec, set |-> uset, code |-> crec,
                      reply |-> [flag |-> 0, error |-> msg, free |-> 0, paid |-> 0]]
    IN  IF ~crec.exists THEN fail(ErrInvalid)
        ELSE IF c \in uset THEN fail(ErrAlready)
        ELSE IF HGetNum(crec, "usedCount") >= HGetNum(crec, "maxUses")
             THEN fail(ErrExhausted)
        ELSE LET credits == HGetNum(crec, "credits")
                 freeUsed == HGetNum(urec, "freeUsed")
                 paidCredits == HGetNum(urec, "paidCredits") + credits
             IN  [user |-> WriteUser(urec, freeUsed, paidCredits, now),
                  set |-> uset \cup {c},
                  code |-> [crec EXCEPT !.usedCount = @ + 1, !.updatedAt = now],
                  reply |-> [flag |-> 1, error |-> "",
                             free |-> Max(0, FREE_QUOTA_LIMIT - freeUsed),
                             paid |-> paidCredits]]

\* the user hash is written before the usedCount >= maxUses test
RedeemScript_WritesFirst(urec, uset, crec, c, now) ==
    LET fail(msg) == [user |-> urec, set |-> uset, code |-> crec,
                      reply |-> [flag |-> 0, error |-> msg, free |-> 0, paid |-> 0]]
    IN  IF ~crec.exists THEN fail(ErrInvalid)
        ELSE IF HGetNum(crec, "active") # 1 THEN fail(ErrInvalid)
        ELSE IF c \in uset THEN fail(ErrAlready)
        ELSE IF HGetNum(crec, "usedCount") >= HGetNum(crec, "maxUses")
             THEN [fail(ErrExhausted) EXCEPT !.code.updatedAt = now,
                                             !.user = WriteUser(urec, HGetNum(urec, "freeUsed"),
                                                          HGetNum(urec, "paidCredits"), now)]
        ELSE LET credits == HGetNum(crec, "credits")
                 freeUsed == HGetNum(urec, "freeUsed")
                 paidCredits == HGetNum(urec, "paidCredits") + credits
             IN  [user |-> WriteUser(urec, freeUsed, paidCredits, now),
                  set |-> uset \cup {c},
                  code |-> [crec EXCEPT !.usedCount = @ + 1, !.updatedAt = now],
                  reply |-> [flag |-> 1, error |-> "",
                             free |-> Max(0, FREE_QUOTA_LIMIT - freeUsed),
                             paid |-> paidCredits]]

\* the SISMEMBER test comes before the active test
RedeemScript_MemberFirst(urec, uset, crec, c, now) ==
    LET fail(msg) == [user |-> urec, set |-> uset, code |-> crec,
                      reply |-> [flag |-> 0, error |-> msg, free |-> 0, paid |-> 0]]
    IN  IF ~crec.exists THEN fail(ErrInvalid)
        ELSE IF c \in uset THEN fail(ErrAlready)
        ELSE IF HGetNum(crec, "active") # 1 THEN fail(ErrInvalid)
        ELSE IF HGetNum(crec, "usedCount") >= HGetNum(crec, "maxUses")
             THEN fail(ErrExhausted)
        ELSE LET credits == HGetNum(crec, "credits")
                 freeUsed == HGetNum(urec, "freeUsed")
                 paidCredits == HGetNum(urec, "paidCredits") + credits
             IN  [user |-> WriteUser(urec, freeUsed, paidCredits, now),
                  set |-> uset \cup {c},
                  code |-> [crec EXCEPT !.usedCount = @ + 1, !.updatedAt = now],
                  reply |-> [flag |-> 1, error |-> "",
                             free |-> Max(0, FREE_QUOTA_LIMIT - freeUsed),
                             paid |-> paidCredits]]

\* The Lua script of redeemCodeForUser: what it leaves of the user hash, the user's
\* redeemed set and the code hash, and its reply.
RedeemScript(urec, uset, crec, c, now) ==
    LET fail(msg) == [user |-> urec, set |-> uset, code |-> crec,
                      reply |-> [flag |-> 0, error |-> msg, free |-> 0, paid |-> 0]]
    IN  IF ~crec.exists THEN fail(ErrInvalid)
        ELSE IF HGetNum(crec, "active") # 1 THEN fail(ErrInvalid)
        ELSE IF c \in uset THEN fail(ErrAlready)
        ELSE IF HGetNum(crec, "usedCount") >= HGetNum(crec, "maxUses")
             THEN fail(ErrExhausted)
        ELSE LET credits == HGetNum(crec, "credits")
                 freeUsed == HGetNum(urec, "freeUsed")
                 paidCredits == HGetNum(urec, "paidCredits") + credits
             IN  [user |-> WriteUser(urec, freeUsed, paidCredits, now),
                  set |-> uset \cup {c},
                  code |-> [crec EXCEPT !.usedCount = @ + 1, !.updatedAt = now],
                  reply |-> [flag |-> 1, error |-> "",
                             free |-> Max(0, FREE_QUOTA_LIMIT - freeUsed),
                             paid |-> paidCredits]]


\* --------------------------------------------------------------- handlers
\* A handler is idle, or suspended at an `await` between two store accesses of a
\* call that makes several.  A call whose only store access is one script is one
\* step.  Arguments are inputs, so they are drawn when the step that uses them runs.
Idle == [pc |-> "idle", uid |-> "", code |-> <<>>, credits |-> 0,
         maxUses |-> 0, active |-> 0, err |-> "", i |-> 0,
         route |-> "none", from |-> "undefined", called |-> FALSE,
         refunds |-> 0, applied |-> 0,
         count |-> 0, result |-> <<>>, before |-> {}, retries |-> 0, raw |-> <<>>]

\* nothing was returned by the step just taken
NoRet == [op |-> "none", uid |-> "", code |-> <<>>, ok |-> FALSE, from |-> "",
          credits |-> 0, error |-> "", quota |-> QuotaOf(0, 0), rec |-> NoCode,
          status |-> 0, called |-> FALSE, refunds |-> 0, applied |-> 0,
          result |-> <<>>, retries |-> 0,
          stats |-> [codeCount |-> 0, activeCodeCount |-> 0, exhaustedCodeCount |-> 0,
                     userCount |-> 0, totalPaidCredits |-> 0],
          auth |-> [env |-> <<>>, authorization |-> <<>>, xtoken |-> <<>>],
          raw |-> <<>>]

\* The observer records nothing ("off": only the store is looked at), the value
\* each call returns ("reply"), or that and a run of consume calls ("idle", "run",
\* and "undone" once a run of one consume was closed by the matching refund).
WatchOff   == [mode |-> "off", uid |-> "", f0 |-> 0, p0 |-> 0, ok |-> 0,
               denied |-> 0, from |-> ""]
WatchReply == [WatchOff EXCEPT !.mode = "reply"]
WatchIdle  == [WatchOff EXCEPT !.mode = "idle"]

\* the returned value as the observer records it
Reply(r) == IF watch.mode = "off" THEN NoRet ELSE r

\* The observer of consume runs.  A run is a sequence of consume transactions of
\* one user with no other write to that user's hash in between; the observer may
\* start a new run at any consume and remembers the counters the run started from.
WatchConsume(u, rec, reply) ==
    IF watch.mode \in {"off", "reply"} THEN {watch}
    ELSE LET fresh == [mode |-> "run", uid |-> u,
                       f0 |-> HGetNum(rec, "freeUsed"), p0 |-> HGetNum(rec, "paidCredits"),
                       ok |-> reply.flag, denied |-> 1 - reply.flag, from |-> reply.from]
             cont == IF watch.mode = "run" /\ watch.uid = u
                     THEN IF reply.flag = 0 /\ watch.denied >= MaxDenied
                          THEN WatchIdle
                          ELSE [watch EXCEPT !.ok = @ + reply.flag,
                                             !.denied = @ + (1 - reply.flag),
                                             !.from = reply.from]
                     ELSE IF watch.mode = "undone" /\ watch.uid = u THEN WatchIdle
                     ELSE watch
         IN  {fresh, cont}

\* any other write to the user's hash ends the run
WatchOther(u) ==
    IF watch.mode \in {"run", "undone"} /\ watch.uid = u THEN WatchIdle ELSE watch

\* a refund: it closes a run of exactly one allowed consume from the same bucket
WatchRefund(u, from) ==
    IF watch.mode = "run" /\ watch.uid = u /\ watch.ok = 1 /\ watch.denied = 0
          /\ watch.from = from
    THEN [watch EXCEPT !.mode = "undone"]
    ELSE WatchOther(u)

\* ---- ensureInitialized() and seedCodesFromEnv()
\* `initialized` is read when an engine function is entered.  A handler that finds
\* it false walks through seedCodesFromEnv, suspended at every store access.
ensureInitialized(p) ==
    /\ proc[p].pc = "idle"
    /\ ~initialized
    /\ proc' = [proc EXCEPT ![p].pc = "seedExists", ![p].i = 1]
    /\ ret' = NoRet
    /\ UNCHANGED <<user, redeemed, code, initialized, clock, watch>>
    /\ UNCHANGED conn

\* the handler is past `await ensureInitialized()`
Passed(p) ==
    \/ proc[p].pc = "ready"
    \/ proc[p].pc = "idle" /\ initialized

\* after seed entry i: the next entry, or set the latch and go on with the call
SeedNext(p) ==
    IF proc[p].i >= Len(SeedList)
    THEN /\ initialized' = TRUE
         /\ proc' = [proc EXCEPT ![p].pc = "ready", ![p].i = 0]
    ELSE /\ UNCHANGED initialized
         /\ proc' = [proc EXCEPT ![p].pc = "seedExists", ![p].i = @ + 1]

\* const exists = await redis.exists(key); if (exists) continue
SeedExists(p) ==
    /\ proc[p].pc = "seedExists"
    /\ IF proc[p].i > Len(SeedList) \/ code[SeedList[proc[p].i].code].exists
       THEN SeedNext(p)
       ELSE /\ proc' = [proc EXCEPT ![p].pc = "seedSet"]
            /\ UNCHANGED initialized
    /\ ret' = NoRet
    /\ UNCHANGED <<user, redeemed, code, clock, watch>>
    /\ UNCHANGED conn

\* await redis.hSet(key, {... maxUses: '1', usedCount: '0', active: '1' ...})
SeedSet(p) ==
    /\ proc[p].pc = "seedSet"
    /\ code' = [code EXCEPT ![SeedList[proc[p].i].code] =
                    NewCode(SeedList[proc[p].i].credits, 1, 1, clock)]
    /\ SeedNext(p)
    /\ ret' = NoRet
    /\ UNCHANGED <<user, redeemed, clock, watch>>
    /\ UNCHANGED conn

\* ---- consumeGenerationCredit(userId)
consumeGenerationCredit(p, u) ==
    /\ Passed(p)
    /\ LET r == ConsumeScript(user[u], clock)
           allowed == r.reply.flag = 1
       IN  /\ user' = [user EXCEPT ![u] = r.rec]
           /\ ret' = Reply([NoRet EXCEPT !.op = "consume", !.uid = u, !.ok = allowed,
                          !.from = IF allowed THEN r.reply.from ELSE "undefined",
                          !.quota = QuotaOf(r.reply.free, r.reply.paid)])
           /\ watch' \in WatchConsume(u, user[u], r.reply)
    /\ proc' = [proc EXCEPT ![p] = Idle]
    /\ UNCHANGED <<redeemed, code, initialized, clock>>
    /\ UNCHANGED conn

\* ---- refundGenerationCredit(userId, consumedFrom)
refundGenerationCredit(p, u, from) ==
    /\ Passed(p)
    /\ from = "paid" => HGetNum(user[u], "paidCredits") < MaxPaid
    /\ LET r == RefundScript(user[u], from, clock)
       IN  /\ user' = [user EXCEPT ![u] = r.rec]
           /\ ret' = Reply([NoRet EXCEPT !.op = "refund", !.uid = u, !.ok = TRUE,
                          !.from = from,
                          !.quota = QuotaOf(r.reply.free, r.reply.paid)])
           /\ watch' = WatchRefund(u, from)
    /\ proc' = [proc EXCEPT ![p] = Idle]
    /\ UNCHANGED <<redeemed, code, initialized, clock>>
    /\ UNCHANGED conn

\* ---- grantPaidCredits(userId, credits)
GrantInputs == {0, 2}

grantPaidCredits(p, u, credits) ==
    /\ Passed(p)
    /\ LET delta == Max(1, credits)
           r == GrantScript(user[u], delta, clock)
       IN  /\ r.reply.paid <= MaxPaid
           /\ user' = [user EXCEPT ![u] = r.rec]
           /\ ret' = Reply([NoRet EXCEPT !.op = "grant", !.uid = u, !.ok = TRUE,
                          !.credits = delta,
                          !.quota = QuotaOf(r.reply.free, r.reply.paid)])
           /\ watch' = WatchOther(u)
    /\ proc' = [proc EXCEPT ![p] = Idle]
    /\ UNCHANGED <<redeemed, code, initialized, clock>>
    /\ UNCHANGED conn

\* ---- redeemCodeForUser(userId, rawCode)
\* One step up to and including the script (an empty code returns before it, with
\* the snapshot read on the spot).  A refused redemption returns only after a
\* further read, getQuotaSnapshot, for which the handler is suspended once more.
\* the empty-code return writes the hash it has read (and so creates a missing one)
redeemCodeForUser_EmptyTouches(p, u, rawCode) ==
    /\ Passed(p)
    /\ LET c == normalizeCode(rawCode)
       IN  IF c = <<>>
           THEN /\ ret' = Reply([NoRet EXCEPT !.op = "redeem", !.uid = u, !.error = ErrEmpty,
                               !.quota = snapshotFromValues(HGetNum(user[u], "freeUsed"),
                                                            HGetNum(user[u], "paidCredits"))])
                /\ proc' = [proc EXCEPT ![p] = Idle]
                /\ user' = [user EXCEPT ![u] = WriteUser(@, HGetNum(@, "freeUsed"),
                                                         HGetNum(@, "paidCredits"), clock)]
                /\ UNCHANGED <<redeemed, code, watch>>
           ELSE LET r == RedeemScript(user[u], redeemed[u], code[c], c, clock)
                IN  /\ user' = [user EXCEPT ![u] = r.user]
                    /\ redeemed' = [redeemed EXCEPT ![u] = r.set]
                    /\ code' = [code EXCEPT ![c] = r.code]
                    /\ IF r.reply.flag = 1
                       THEN /\ ret' = Reply([NoRet EXCEPT !.op = "redeem", !.uid = u, !.code = c,
                                           !.raw = rawCode,
                                           !.ok = TRUE, !.credits = HGetNum(code[c], "credits"),
                                           !.quota = QuotaOf(r.reply.free, r.reply.paid)])
                            /\ proc' = [proc EXCEPT ![p] = Idle]
                            /\ watch' = WatchOther(u)
                       ELSE /\ ret' = NoRet
                            /\ proc' = [proc EXCEPT ![p] =
                                   [Idle EXCEPT !.pc = "redeemSnap", !.uid = u, !.code = c,
                                                !.raw = rawCode, !.err = r.reply.error]]
                            /\ UNCHANGED watch
    /\ UNCHANGED <<initialized, clock>>
    /\ UNCHANGED conn

redeemCodeForUser(p, u, rawCode) ==
    /\ Passed(p)
    /\ LET c == normalizeCode(rawCode)
       IN  IF c = <<>>
           THEN /\ ret' = Reply([NoRet EXCEPT !.op = "redeem", !.uid = u, !.error = ErrEmpty,
                               !.quota = snapshotFromValues(HGetNum(user[u], "freeUsed"),
                                                            HGetNum(user[u], "paidCredits"))])
                /\ proc' = [proc EXCEPT ![p] = Idle]
                /\ UNCHANGED <<user, redeemed, code, watch>>
           ELSE LET r == RedeemScript(user[u], redeemed[u], code[c], c, clock)
                IN  /\ user' = [user EXCEPT ![u] = r.user]
                    /\ redeemed' = [redeemed EXCEPT ![u] = r.set]
                    /\ code' = [code EXCEPT ![c] = r.code]
                    /\ IF r.reply.flag = 1
                       THEN /\ ret' = Reply([NoRet EXCEPT !.op = "redeem", !.uid = u, !.code = c,
                                           !.raw = rawCode,
                                           !.ok = TRUE, !.credits = HGetNum(code[c], "credits"),
                                           !.quota = QuotaOf(r.reply.free, r.reply.paid)])
                            /\ proc' = [proc EXCEPT ![p] = Idle]
                            /\ watch' = WatchOther(u)
                       ELSE /\ ret' = NoRet
                            /\ proc' = [proc EXCEPT ![p] =
                                   [Idle EXCEPT !.pc = "redeemSnap", !.uid = u, !.code = c,
                                                !.raw = rawCode, !.err = r.reply.error]]
                            /\ UNCHANGED watch
    /\ UNCHANGED <<initialized, clock>>
    /\ UNCHANGED conn

\* the empty-code return when its snapshot read rejects: getQuotaSnapshot throws
\* out of redeemCodeForUser, which has no try/catch
redeemEmptyThrows(p, u, rawCode) ==
    /\ Passed(p)
    /\ normalizeCode(rawCode) = <<>>
    /\ ret' = Reply([NoRet EXCEPT !.op = "redeem", !.uid = u, !.error = ErrStore])
    /\ proc' = [proc EXCEPT ![p] = Idle]
    /\ UNCHANGED <<user, redeemed, code, initialized, clock, watch>>
    /\ UNCHANGED conn

\* return { ok: false, error, quota: await getQuotaSnapshot(userId) }
RedeemSnap(p) ==
    /\ proc[p].pc = "redeemSnap"
    /\ LET u == proc[p].uid
       IN  ret' = Reply([NoRet EXCEPT !.op = "redeem", !.uid = u, !.code = proc[p].code,
                       !.raw = proc[p].raw, !.error = proc[p].err,
                       !.quota = snapshotFromValues(HGetNum(user[u], "freeUsed"),
                                                    HGetNum(user[u], "paidCredits"))])
    /\ proc' = [proc EXCEPT ![p] = Idle]
    /\ UNCHANGED <<user, redeemed, code, initialized, clock, watch>>
    /\ UNCHANGED conn

\* ---- createRedeemCode({code?, credits, maxUses?, active?})
Absent == -1                    \* an optional number that was not given
CreditInputs == {0}
MaxUsesInputs == {Absent, 2}
ActiveInputs == {"absent", "false"}
CodeInputs == { <<" ", "a">>, <<" ">>, <<>> }    \* <<>>: no code given, one is generated

\* up to `const exists = await redis.exists(key)`: throws, or goes on to the hSet
createRedeemCode(p, rawCode, creditsIn, maxUsesIn, activeIn) ==
    /\ Passed(p)
    /\ LET credits == Max(1, creditsIn)
           maxUses == Max(1, IF maxUsesIn = Absent THEN 1 ELSE maxUsesIn)
       IN  \E gen \in GeneratedCodes :
             LET c == normalizeCode(IF rawCode = <<>> THEN gen ELSE rawCode)
             IN  IF c = <<>>
                 THEN /\ ret' = Reply([NoRet EXCEPT !.op = "create", !.error = ErrEmpty])
                      /\ proc' = [proc EXCEPT ![p] = Idle]
                 ELSE IF code[c].exists
                 THEN /\ ret' = Reply([NoRet EXCEPT !.op = "create", !.code = c,
                                     !.raw = rawCode, !.error = ErrExists])
                      /\ proc' = [proc EXCEPT ![p] = Idle]
                 ELSE /\ ret' = NoRet
                      /\ proc' = [proc EXCEPT ![p] =
                             [Idle EXCEPT !.pc = "createSet", !.code = c,
                                          !.credits = credits, !.maxUses = maxUses,
                                          !.active = IF activeIn = "false" THEN 0 ELSE 1]]
    /\ UNCHANGED <<user, redeemed, code, initialized, clock, watch>>
    /\ UNCHANGED conn

\* await redis.hSet(key, {...}); return the record
CreateSet(p) ==
    /\ proc[p].pc = "createSet"
    /\ LET c == proc[p].code
           rec == NewCode(proc[p].credits, proc[p].maxUses, proc[p].active, clock)
       IN  /\ code' = [code EXCEPT ![c] = rec]
           /\ ret' = Reply([NoRet EXCEPT !.op = "create", !.code = c, !.ok = TRUE, !.rec = rec])
    /\ proc' = [proc EXCEPT ![p] = Idle]
    /\ UNCHANGED <<user, redeemed, initialized, clock, watch>>
    /\ UNCHANGED conn

\* ---- setRedeemCodeActive(code, active)
setRedeemCodeActive(p, rawCode, active) ==
    /\ Passed(p)
    /\ LET c == normalizeCode(rawCode)
       IN  IF c \notin Codes \/ ~code[c].exists
           THEN /\ ret' = Reply([NoRet EXCEPT !.op = "setActive", !.code = c,
                               !.error = ErrNotFound])
                /\ proc' = [proc EXCEPT ![p] = Idle]
           ELSE /\ ret' = NoRet
                /\ proc' = [proc EXCEPT ![p] =
                       [Idle EXCEPT !.pc = "activeSet", !.code = c,
                                    !.active = IF active THEN 1 ELSE 0]]
    /\ UNCHANGED <<user, redeemed, code, initialized, clock, watch>>
    /\ UNCHANGED conn

\* the flip rewrites the whole record and so forgets the uses
ActiveSet_ResetsCount(p) ==
    /\ proc[p].pc = "activeSet"
    /\ code' = [code EXCEPT ![proc[p].code] =
                    [@ EXCEPT !.active = proc[p].active, !.updatedAt = clock,
                              !.usedCount = 0]]
    /\ proc' = [proc EXCEPT ![p].pc = "activeGet"]
    /\ ret' = NoRet
    /\ UNCHANGED <<user, redeemed, initialized, clock, watch>>
    /\ UNCHANGED conn

\* await redis.hSet(key, { active, updatedAt })
ActiveSet(p) ==
    /\ proc[p].pc = "activeSet"
    /\ code' = [code EXCEPT ![proc[p].code] =
                    [@ EXCEPT !.active = proc[p].active, !.updatedAt = clock]]
    /\ proc' = [proc EXCEPT ![p].pc = "activeGet"]
    /\ ret' = NoRet
    /\ UNCHANGED <<user, redeemed, initialized, clock, watch>>
    /\ UNCHANGED conn

\* const values = await redis.hmGet(key, [...]); return fromCodeHash(normalized, values)
ActiveGet(p) ==
    /\ proc[p].pc = "activeGet"
    /\ ret' = Reply([NoRet EXCEPT !.op = "setActive", !.code = proc[p].code, !.ok = TRUE,
                   !.rec = code[proc[p].code]])
    /\ proc' = [proc EXCEPT ![p] = Idle]
    /\ UNCHANGED <<user, redeemed, code, initialized, clock, watch>>
    /\ UNCHANGED conn

\* ---- a store command that rejects (store unreachable, or the reply timed out)
\* The engine functions have no try/catch around their store commands, so the
\* rejection leaves the function as an exception: the caller gets no value.  The
\* script either never reached the store or ran there before the reply was lost.
StoreOutcomes == {"reply", "failBefore", "failAfter"}
EngineOps == {"consume", "refund", "grant", "redeem"}

\* an engine function called outside the generateImage handler throws
engineThrows(p, u, op, applied) ==
    /\ Passed(p) /\ proc[p].route = "none"
    /\ op = "grant" => HGetNum(user[u], "paidCredits") < MaxPaid
    /\ LET c == SeedList[1].code
           rr == RedeemScript(user[u], redeemed[u], code[c], c, clock)
           urec == CASE op = "consume" -> ConsumeScript(user[u], clock).rec
                     [] op = "refund" -> RefundScript(user[u], "free", clock).rec
                     [] op = "grant" -> GrantScript(user[u], 1, clock).rec
                     [] OTHER -> rr.user
       IN  IF applied
           THEN /\ user' = [user EXCEPT ![u] = urec]
                /\ redeemed' = IF op = "redeem" THEN [redeemed EXCEPT ![u] = rr.set]
                                ELSE redeemed
                /\ code' = IF op = "redeem" THEN [code EXCEPT ![c] = rr.code] ELSE code
                /\ watch' = WatchOther(u)
           ELSE UNCHANGED <<user, redeemed, code, watch>>
    /\ ret' = Reply([NoRet EXCEPT !.op = op, !.uid = u, !.error = ErrStore])
    /\ proc' = [proc EXCEPT ![p].pc = "idle"]
    /\ UNCHANGED <<initialized, clock>>
    /\ UNCHANGED conn

\* ---- POST /api/generateImage
\* the response the handler sends, with what the request did on its way
Response(h, status, error, quota) ==
    [NoRet EXCEPT !.op = "generateImage", !.uid = h.uid, !.ok = (status = 200),
                  !.status = status, !.error = error, !.from = h.from,
                  !.quota = quota, !.called = h.called, !.refunds = h.refunds,
                  !.applied = h.applied]

\* what checkRateLimit and the QWEN_API_KEY test let through
Gates == {"limited", "nokey", "pass"}

\* the credit is taken before the rate limiter and the API key are looked at
GenStart_ConsumesFirst(p, u, gate) ==
    /\ proc[p].pc = "idle" /\ proc[p].route = "none" /\ initialized
    /\ LET h == [Idle EXCEPT !.uid = u]
           r == ConsumeScript(user[u], clock)
       IN  /\ user' = [user EXCEPT ![u] = r.rec]
           /\ CASE gate = "limited" ->
                     /\ ret' = Reply(Response(h, 429, "rate_limited", QuotaOf(0, 0)))
                     /\ UNCHANGED proc
                [] gate = "nokey" ->
                     /\ ret' = Reply(Response(h, 400, "no_api_key", QuotaOf(0, 0)))
                     /\ UNCHANGED proc
                [] OTHER ->
                     /\ ret' = NoRet
                     /\ proc' = [proc EXCEPT ![p] = [h EXCEPT !.route = "consume"]]
    /\ UNCHANGED <<redeemed, code, initialized, clock, watch>>
    /\ UNCHANGED conn

\* lines 17-34: the session, the rate limiter, the API key
GenStart(p, u, gate) ==
    /\ proc[p].pc = "idle" /\ proc[p].route = "none"
    /\ LET h == [Idle EXCEPT !.uid = u]
       IN  CASE gate = "limited" ->
                  /\ ret' = Reply(Response(h, 429, "rate_limited", QuotaOf(0, 0)))
                  /\ UNCHANGED proc
             [] gate = "nokey" ->
                  /\ ret' = Reply(Response(h, 400, "no_api_key", QuotaOf(0, 0)))
                  /\ UNCHANGED proc
             [] OTHER ->
                  /\ ret' = NoRet
                  /\ proc' = [proc EXCEPT ![p] = [h EXCEPT !.route = "consume"]]
    /\ UNCHANGED <<user, redeemed, code, initialized, clock, watch>>
    /\ UNCHANGED conn

\* the consume step goes on without looking at what the engine reported
GenConsume_AssumesSuccess(p, outcome) ==
    /\ proc[p].route = "consume" /\ Passed(p)
    /\ LET u == proc[p].uid
           r == ConsumeScript(user[u], clock)
       IN  /\ user' = IF outcome = "failBefore" THEN user ELSE [user EXCEPT ![u] = r.rec]
           /\ watch' = IF outcome = "failBefore" THEN watch ELSE WatchOther(u)
           /\ ret' = NoRet
           /\ proc' = [proc EXCEPT ![p].pc = "idle", ![p].route = "body",
                                   ![p].from = "free"]
    /\ UNCHANGED <<redeemed, code, initialized, clock>>
    /\ UNCHANGED conn

\* lines 36-49: const consumption = await consumeGenerationCredit(session.userId)
GenConsume(p, outcome) ==
    /\ proc[p].route = "consume" /\ Passed(p)
    /\ LET u == proc[p].uid
           h == proc[p]
           r == ConsumeScript(user[u], clock)
       IN  CASE outcome = "reply" /\ r.reply.flag = 1 ->
                  /\ user' = [user EXCEPT ![u] = r.rec]
                  /\ watch' \in WatchConsume(u, user[u], r.reply)
                  /\ ret' = Reply([NoRet EXCEPT !.op = "consume", !.uid = u, !.ok = TRUE,
                                     !.from = r.reply.from,
                                     !.quota = QuotaOf(r.reply.free, r.reply.paid)])
                  /\ proc' = [proc EXCEPT ![p].pc = "idle", ![p].route = "body",
                                          ![p].from = r.reply.from]
             [] outcome = "reply" /\ r.reply.flag # 1 ->
                  /\ user' = [user EXCEPT ![u] = r.rec]
                  /\ watch' \in WatchConsume(u, user[u], r.reply)
                  /\ ret' = Reply(Response(h, 402, "quota_exceeded",
                                           QuotaOf(r.reply.free, r.reply.paid)))
                  /\ proc' = [proc EXCEPT ![p] = Idle]
             [] OTHER ->
                  \* the call threw: catch, consumedFrom is undefined, 400
                  /\ user' = IF outcome = "failAfter" THEN [user EXCEPT ![u] = r.rec]
                              ELSE user
                  /\ watch' = IF outcome = "failAfter" THEN WatchOther(u) ELSE watch
                  /\ ret' = Reply(Response(h, 400, ErrStore, QuotaOf(0, 0)))
                  /\ proc' = [proc EXCEPT ![p] = Idle]
    /\ UNCHANGED <<redeemed, code, initialized, clock>>
    /\ UNCHANGED conn

\* what req.json() and the prompt test find
Bodies == {"prompt", "missing", "unreadable"}

\* lines 51-60: the body; a missing prompt goes to the refund of line 55, an
\* unreadable body throws into the catch block
GenBody(p, body) ==
    /\ proc[p].route = "body"
    /\ proc' = [proc EXCEPT ![p].route =
                   CASE body = "prompt" -> "generate"
                     [] body = "missing" -> "refundMissing"
                     [] OTHER -> "refundCatch",
                 ![p].err = IF body = "unreadable" THEN "unreadable_body" ELSE ""]
    /\ ret' = NoRet
    /\ UNCHANGED <<user, redeemed, code, initialized, clock, watch>>
    /\ UNCHANGED conn

\* lines 62-66 and 82-139: the call of the image service
GenCall(p, image) ==
    /\ proc[p].route = "generate"
    /\ LET h == [proc[p] EXCEPT !.called = TRUE]
       IN  IF image
           THEN /\ ret' = Reply(Response(h, 200, "", QuotaOf(0, 0)))
                /\ proc' = [proc EXCEPT ![p] = Idle]
           ELSE /\ ret' = NoRet
                /\ proc' = [proc EXCEPT ![p] = [h EXCEPT !.route = "refundCatch",
                                                         !.err = "generation_failed"]]
    /\ UNCHANGED <<user, redeemed, code, initialized, clock, watch>>
    /\ UNCHANGED conn

\* lines 54-59 and 68-75: await refundGenerationCredit(session.userId, consumedFrom).
\* A refund that throws at line 55 is caught at line 67, where consumedFrom is
\* still set; a refund that throws at line 69 leaves the handler as an exception.
GenRefund(p, outcome) ==
    /\ proc[p].route \in {"refundMissing", "refundCatch"} /\ Passed(p)
    /\ LET u == proc[p].uid
           from == proc[p].from
           r == RefundScript(user[u], from, clock)
           ran == outcome # "failBefore"
           h == [proc[p] EXCEPT !.refunds = @ + 1,
                                !.applied = IF ran THEN @ + 1 ELSE @]
       IN  /\ from = "paid" => HGetNum(user[u], "paidCredits") <= MaxPaid
           /\ user' = IF ran THEN [user EXCEPT ![u] = r.rec] ELSE user
           /\ watch' = IF ran THEN WatchRefund(u, from) ELSE watch
           /\ CASE outcome = "reply" ->
                    /\ ret' = Reply(Response(h, 400,
                                    IF h.route = "refundMissing" THEN "missing_prompt"
                                    ELSE h.err, QuotaOf(0, 0)))
                    /\ proc' = [proc EXCEPT ![p] = Idle]
               [] outcome # "reply" /\ h.route = "refundMissing" ->
                    /\ ret' = NoRet
                    /\ proc' = [proc EXCEPT ![p] = [h EXCEPT !.route = "refundCatch",
                                                             !.err = ErrStore]]
               [] OTHER ->
                    /\ ret' = Reply(Response(h, 500, ErrStore, QuotaOf(0, 0)))
                    /\ proc' = [proc EXCEPT ![p] = Idle]
    /\ UNCHANGED <<redeemed, code, initialized, clock>>
    /\ UNCHANGED conn

\* ---- GET quota status: getQuotaSnapshot behind a try/catch
ErrQuotaUnavailable == "quota_unavailable"   \* the quotaUnavailable: true response

\* the handler takes the session and enters getQuotaSnapshot(session.userId)
QuotaStart(p, u) ==
    /\ proc[p].pc = "idle" /\ proc[p].route = "none"
    /\ proc' = [proc EXCEPT ![p] = [Idle EXCEPT !.uid = u, !.route = "quota"]]
    /\ ret' = NoRet
    /\ UNCHANGED <<user, redeemed, code, initialized, clock, watch>>
    /\ UNCHANGED conn

\* the degraded response of the catch block
Degraded(h) ==
    [NoRet EXCEPT !.op = "quotaStatus", !.uid = h.uid, !.status = 200,
                  !.error = ErrQuotaUnavailable, !.quota = QuotaOf(0, 0)]

\* the catch block answers with a snapshot copied from the account
QuotaRead_DegradedFromStore(p, fails) ==
    /\ proc[p].route = "quota" /\ Passed(p)
    /\ LET u == proc[p].uid
           q == snapshotFromValues(HGetNum(user[u], "freeUsed"),
                                   HGetNum(user[u], "paidCredits"))
       IN  ret' = Reply([NoRet EXCEPT !.op = "quotaStatus", !.uid = u, !.status = 200,
                          !.ok = ~fails, !.quota = q,
                          !.error = IF fails THEN ErrQuotaUnavailable ELSE ""])
    /\ proc' = [proc EXCEPT ![p] = Idle]
    /\ UNCHANGED <<user, redeemed, code, initialized, clock, watch>>
    /\ UNCHANGED conn

\* the read writes the hash it has just read (and so creates a missing one)
QuotaRead_Touches(p, fails) ==
    /\ proc[p].route = "quota" /\ Passed(p)
    /\ LET u == proc[p].uid
           q == snapshotFromValues(HGetNum(user[u], "freeUsed"),
                                   HGetNum(user[u], "paidCredits"))
       IN  /\ ret' = Reply(IF fails THEN Degraded(proc[p])
                           ELSE [NoRet EXCEPT !.op = "quotaStatus", !.uid = u, !.ok = TRUE,
                                              !.status = 200, !.quota = q])
           /\ user' = [user EXCEPT ![u] = WriteUser(user[u], HGetNum(user[u], "freeUsed"),
                                                    HGetNum(user[u], "paidCredits"), clock)]
    /\ proc' = [proc EXCEPT ![p] = Idle]
    /\ UNCHANGED <<redeemed, code, initialized, clock, watch>>
    /\ UNCHANGED conn

\* const values = await redis.hmGet(key, ['freeUsed', 'paidCredits']) and the
\* response: the snapshot, or, when the read rejects, the all-zero snapshot
QuotaRead(p, fails) ==
    /\ proc[p].route = "quota" /\ Passed(p)
    /\ LET u == proc[p].uid
           q == snapshotFromValues(HGetNum(user[u], "freeUsed"),
                                   HGetNum(user[u], "paidCredits"))
       IN  ret' = Reply(IF fails THEN Degraded(proc[p])
                        ELSE [NoRet EXCEPT !.op = "quotaStatus", !.uid = u, !.ok = TRUE,
                                           !.status = 200, !.quota = q])
    /\ proc' = [proc EXCEPT ![p] = Idle]
    /\ UNCHANGED <<user, redeemed, code, initialized, clock, watch>>
    /\ UNCHANGED conn

\* A store command of seedCodesFromEnv rejects: the import and the engine call
\* around it throw and the latch stays unset.  An hSet may have run at the store
\* before its reply was lost.  The quota-status handler catches the exception.
SeedThrows(p, applied) ==
    /\ proc[p].pc \in {"seedExists", "seedSet"}
    /\ proc[p].route \in {"none", "quota"}
    /\ IF applied /\ proc[p].pc = "seedSet"
       THEN code' = [code EXCEPT ![SeedList[proc[p].i].code] =
                        NewCode(SeedList[proc[p].i].credits, 1, 1, clock)]
       ELSE UNCHANGED code
    /\ ret' = Reply(IF proc[p].route = "quota" THEN Degraded(proc[p])
                    ELSE [NoRet EXCEPT !.op = "seed", !.error = ErrStore])
    /\ proc' = [proc EXCEPT ![p] = Idle]
    /\ UNCHANGED <<user, redeemed, initialized, clock, watch>>
    /\ UNCHANGED conn

\* ---- the key layout
\* Every account is a hash and every redemption set a set of one Redis keyspace.
KEY_PREFIX == "signify"
userKey(userId) == KEY_PREFIX \o ":user:" \o userId
userRedeemSetKey(userId) == KEY_PREFIX \o ":user:" \o userId \o ":codes"

\* Session ids are whatever string the cookie carries (its length aside): two
\* visitors, the id of the second being the id of the first followed by ":codes".
KeyUsers == {"u1", "u1:codes"}
AllUsers == Users \cup KeyUsers

\* what a key holds: a set exists as long as it has a member, a hash once written
HoldsSet(key) == \E v \in AllUsers : userRedeemSetKey(v) = key /\ redeemed[v] # {}
HoldsHash(key) == \E v \in AllUsers : userKey(v) = key /\ user[v].exists

\* WRONGTYPE Operation against a key holding the wrong kind of value
ErrWrongType == "WRONGTYPE"

\* consume, refund or grant: the first HGET of the script finds a set under the
\* account key; the script raises, redis.eval rejects, the engine function throws
accountThrows(p, u, op) ==
    /\ Passed(p)
    /\ op \in {"consume", "refund", "grant"}
    /\ HoldsSet(userKey(u))
    /\ ret' = Reply([NoRet EXCEPT !.op = op, !.uid = u, !.error = ErrWrongType])
    /\ proc' = [proc EXCEPT ![p] = Idle]
    /\ UNCHANGED <<user, redeemed, code, initialized, clock, watch>>
    /\ UNCHANGED conn

\* the command of redeemCodeForUser that raises WRONGTYPE, if any: the snapshot
\* read of the empty-code return, SISMEMBER on the redemption-set key, or the
\* HGET on the account key, which comes after the writes to the code and the set
redeemWrongType(u, c) ==
    IF c = <<>> THEN (IF HoldsSet(userKey(u)) THEN "hmGet" ELSE "none")
    ELSE IF ~code[c].exists \/ HGetNum(code[c], "active") # 1 THEN "none"
    ELSE IF HoldsHash(userRedeemSetKey(u)) THEN "SISMEMBER"
    ELSE IF c \in redeemed[u] THEN "none"
    ELSE IF HGetNum(code[c], "usedCount") >= HGetNum(code[c], "maxUses") THEN "none"
    ELSE IF HoldsSet(userKey(u)) THEN "HGET"
    ELSE "none"

\* redeemCodeForUser throwing: a script that raises keeps what it wrote before
redeemThrows(p, u, rawCode) ==
    /\ Passed(p)
    /\ LET c == normalizeCode(rawCode)
           at == redeemWrongType(u, c)
       IN  /\ at # "none"
           /\ IF at = "HGET"
              THEN /\ code' = [code EXCEPT ![c] =
                                  [@ EXCEPT !.usedCount = @ + 1, !.updatedAt = clock]]
                   /\ redeemed' = [redeemed EXCEPT ![u] = @ \cup {c}]
              ELSE UNCHANGED <<code, redeemed>>
           /\ ret' = Reply([NoRet EXCEPT !.op = "redeem", !.uid = u, !.code = c,
                          !.error = ErrWrongType])
    /\ proc' = [proc EXCEPT ![p] = Idle]
    /\ UNCHANGED <<user, initialized, clock, watch>>
    /\ UNCHANGED conn

\* the snapshot read of a refused redemption throwing
redeemSnapThrows(p) ==
    /\ proc[p].pc = "redeemSnap"
    /\ HoldsSet(userKey(proc[p].uid))
    /\ ret' = Reply([NoRet EXCEPT !.op = "redeem", !.uid = proc[p].uid,
                   !.code = proc[p].code, !.error = ErrWrongType])
    /\ proc' = [proc EXCEPT ![p] = Idle]
    /\ UNCHANGED <<user, redeemed, code, initialized, clock, watch>>
    /\ UNCHANGED conn

\* ---- POST admin credits of a user: grantPaidCredits behind the route's checks
\* body.credits as a number of halves, so that Math.floor has something to do
CreditHalves == {-1, 0, 1, 3, 4}
MaxGranted == 3

ErrUnauthorized == "unauthorized"
ErrCredits == "credits must be greater than 0"

\* requireAdmin, const credits = Math.floor(body.credits || 0), and the test
\* credits <= 0, after which the handler enters grantPaidCredits(userId, credits)
AdminCreditsStart(p, u, admin, halves) ==
    /\ proc[p].pc = "idle" /\ proc[p].route = "none"
    /\ LET credits == halves \div 2
       IN  IF ~admin
           THEN /\ ret' = Reply([NoRet EXCEPT !.op = "adminCredits", !.uid = u,
                               !.status = 401, !.error = ErrUnauthorized])
                /\ UNCHANGED proc
           ELSE IF credits <= 0
           THEN /\ ret' = Reply([NoRet EXCEPT !.op = "adminCredits", !.uid = u,
                               !.status = 400, !.credits = credits,
                               !.error = ErrCredits])
                /\ UNCHANGED proc
           ELSE /\ ret' = NoRet
                /\ proc' = [proc EXCEPT ![p] = [Idle EXCEPT !.uid = u, !.route = "credits",
                                                        !.credits = credits]]
    /\ UNCHANGED <<user, redeemed, code, initialized, clock, watch>>
    /\ UNCHANGED conn

\* const quota = await grantPaidCredits(userId, credits); the 200 response
AdminCreditsGrant(p) ==
    /\ proc[p].route = "credits" /\ Passed(p)
    /\ LET u == proc[p].uid
           delta == Max(1, proc[p].credits)
           r == GrantScript(user[u], delta, clock)
       IN  /\ r.reply.paid <= MaxGranted
           /\ user' = [user EXCEPT ![u] = r.rec]
           /\ ret' = Reply([NoRet EXCEPT !.op = "adminCredits", !.uid = u, !.ok = TRUE,
                          !.status = 200, !.credits = proc[p].credits,
                          !.quota = QuotaOf(r.reply.free, r.reply.paid)])
           /\ watch' = WatchOther(u)
    /\ proc' = [proc EXCEPT ![p] = Idle]
    /\ UNCHANGED <<redeemed, code, initialized, clock>>
    /\ UNCHANGED conn

\* ---- createRedeemCodesBatch({count, credits, maxUses?, codePrefix?})
CountInputs == {0, 2}
MaxRetries == 1

\* entry: const result = []; const count = Math.max(1, Math.floor(input.count)).
\* `before` remembers the codes the store held when the call was made.
createRedeemCodesBatch(p, countIn, creditsIn, maxUsesIn) ==
    /\ proc[p].pc = "idle" /\ proc[p].route \in {"none", "adminBatch"}
    /\ proc' = [proc EXCEPT ![p] =
           [Idle EXCEPT !.route = "batch", !.count = countIn,
                        !.credits = Max(1, creditsIn),
                        !.maxUses = Max(1, IF maxUsesIn = Absent THEN 1 ELSE maxUsesIn),
                        !.before = {c \in AllCodes : code[c].exists}]]
    /\ ret' = NoRet
    /\ UNCHANGED <<user, redeemed, code, initialized, clock, watch>>
    /\ UNCHANGED conn

\* one turn of the loop up to redis.exists inside createRedeemCode: the code is
\* there (createRedeemCode throws, the catch goes on with the loop) or it is not
BatchTry(p, gen) ==
    /\ proc[p].route = "batch" /\ proc[p].pc \in {"idle", "ready"} /\ Passed(p)
    /\ LET c == normalizeCode(gen)
       IN  IF code[c].exists
           THEN proc' = [proc EXCEPT ![p].pc = "idle",
                                     ![p].retries = IF @ < MaxRetries THEN @ + 1 ELSE @]
           ELSE proc' = [proc EXCEPT ![p].pc = "batchSet", ![p].code = c]
    /\ ret' = NoRet
    /\ UNCHANGED <<user, redeemed, code, initialized, clock, watch>>
    /\ UNCHANGED conn

\* the loop is left one record early
BatchSet_StopsEarly(p) ==
    /\ proc[p].route = "batch" /\ proc[p].pc = "batchSet"
    /\ LET c == proc[p].code
           result == Append(proc[p].result, c)
       IN  /\ code' = [code EXCEPT ![c] = NewCode(proc[p].credits, proc[p].maxUses, 1, clock)]
           /\ IF Len(result) + 1 >= Max(1, proc[p].count)
              THEN /\ ret' = Reply([NoRet EXCEPT !.op = "batch", !.ok = TRUE,
                                  !.result = result, !.retries = proc[p].retries])
                   /\ proc' = [proc EXCEPT ![p] = Idle]
              ELSE /\ ret' = NoRet
                   /\ proc' = [proc EXCEPT ![p].pc = "idle", ![p].result = result]
    /\ UNCHANGED <<user, redeemed, initialized, clock, watch>>
    /\ UNCHANGED conn

\* the record is pushed although the code is in the result already
BatchSet_NoHSet(p) ==
    /\ proc[p].route = "batch" /\ proc[p].pc = "batchSet"
    /\ LET c == proc[p].code
           result == Append(proc[p].result, c)
       IN  IF Len(result) >= Max(1, proc[p].count)
           THEN /\ ret' = Reply([NoRet EXCEPT !.op = "batch", !.ok = TRUE,
                               !.result = result, !.retries = proc[p].retries])
                /\ proc' = [proc EXCEPT ![p] = Idle]
           ELSE /\ ret' = NoRet
                /\ proc' = [proc EXCEPT ![p].pc = "idle", ![p].result = result]
    /\ UNCHANGED <<user, redeemed, code, initialized, clock, watch>>
    /\ UNCHANGED conn

\* the hSet of createRedeemCode, result.push(created), and the loop test: the
\* call returns the result or goes on with the next turn
BatchSet(p) ==
    /\ proc[p].route = "batch" /\ proc[p].pc = "batchSet"
    /\ LET c == proc[p].code
           result == Append(proc[p].result, c)
       IN  /\ code' = [code EXCEPT ![c] = NewCode(proc[p].credits, proc[p].maxUses, 1, clock)]
           /\ IF Len(result) >= Max(1, proc[p].count)
              THEN /\ ret' = Reply([NoRet EXCEPT !.op = "batch", !.ok = TRUE,
                                  !.result = result, !.retries = proc[p].retries])
                   /\ proc' = [proc EXCEPT ![p] = Idle]
              ELSE /\ ret' = NoRet
                   /\ proc' = [proc EXCEPT ![p].pc = "idle", ![p].result = result]
    /\ UNCHANGED <<user, redeemed, initialized, clock, watch>>
    /\ UNCHANGED conn

\* redis.exists or redis.hSet rejects inside createRedeemCode: the message is not
\* the collision's, so the catch rethrows and the batch ends with what it created
BatchThrows(p, applied) ==
    /\ proc[p].route = "batch" /\ proc[p].pc \in {"idle", "ready", "batchSet"}
    /\ proc[p].pc # "batchSet" => Passed(p)
    /\ IF applied /\ proc[p].pc = "batchSet"
       THEN code' = [code EXCEPT ![proc[p].code] =
                        NewCode(proc[p].credits, proc[p].maxUses, 1, clock)]
       ELSE UNCHANGED code
    /\ ret' = Reply([NoRet EXCEPT !.op = "batch", !.error = ErrStore,
                   !.result = proc[p].result, !.retries = proc[p].retries])
    /\ proc' = [proc EXCEPT ![p] = Idle]
    /\ UNCHANGED <<user, redeemed, initialized, clock, watch>>
    /\ UNCHANGED conn

\* ---- getRedisClient(): the shared, lazily opened store connection
\* Clients are numbered in the order createClient makes them; 0 is null.
MaxAttempts == 4
NoClient == 0
ConnFailed == -1               \* the caller's await rejected

\* let client = null; let connectPromise = null; no attempt under way, and no
\* caller waiting (`waiting`) or answered (`got`)
NoConn == [client |-> NoClient, isOpen |-> FALSE, connectPromise |-> NoClient,
           made |-> 0, inflight |-> {},
           waiting |-> [p \in Procs |-> NoClient], got |-> [p \in Procs |-> NoClient]]

\* every call opens a connection of its own
getRedisClient_NoSharing(p, url) ==
    /\ conn.waiting[p] = NoClient
    /\ IF conn.client # NoClient /\ conn.isOpen
       THEN conn' = [conn EXCEPT !.got[p] = conn.client]
       ELSE IF ~url
       THEN conn' = [conn EXCEPT !.got[p] = ConnFailed]
       ELSE /\ conn.made < MaxAttempts
            /\ conn' = [conn EXCEPT !.made = @ + 1, !.inflight = @ \cup {conn.made + 1},
                                    !.connectPromise = conn.made + 1,
                                    !.waiting[p] = conn.made + 1, !.got[p] = NoClient]
    /\ ret' = NoRet
    /\ UNCHANGED <<user, redeemed, code, initialized, clock, proc, watch>>

\* One call, which runs to its return without a suspension: the open client, the
\* promise of the attempt under way, or a new client whose connect() is started
\* (getRedisUrl throws first when REDIS_URL is missing).
getRedisClient(p, url) ==
    /\ conn.waiting[p] = NoClient
    /\ IF conn.client # NoClient /\ conn.isOpen
       THEN conn' = [conn EXCEPT !.got[p] = conn.client]
       ELSE IF conn.connectPromise # NoClient
       THEN conn' = [conn EXCEPT !.waiting[p] = conn.connectPromise, !.got[p] = NoClient]
       ELSE IF ~url
       THEN conn' = [conn EXCEPT !.got[p] = ConnFailed]
       ELSE /\ conn.made < MaxAttempts
            /\ conn' = [conn EXCEPT !.made = @ + 1, !.inflight = @ \cup {conn.made + 1},
                                    !.connectPromise = conn.made + 1,
                                    !.waiting[p] = conn.made + 1, !.got[p] = NoClient]
    /\ ret' = NoRet
    /\ UNCHANGED <<user, redeemed, code, initialized, clock, proc, watch>>

\* the failure handler leaves the marker of the failed attempt in place
ConnectRejects_KeepsMarker(k) ==
    /\ k \in conn.inflight
    /\ conn' = [conn EXCEPT !.inflight = @ \ {k},
                   !.waiting = [p \in Procs |-> IF conn.waiting[p] = k THEN NoClient
                                                ELSE conn.waiting[p]],
                   !.got = [p \in Procs |-> IF conn.waiting[p] = k THEN ConnFailed
                                            ELSE conn.got[p]]]
    /\ ret' = NoRet
    /\ UNCHANGED <<user, redeemed, code, initialized, clock, proc, watch>>

\* redis.connect() of client k resolves: .then(() => { client = redis;
\* connectPromise = null; return redis }), and every caller awaiting it gets redis
ConnectResolves(k) ==
    /\ k \in conn.inflight
    /\ conn' = [conn EXCEPT !.inflight = @ \ {k},
                   !.client = k, !.isOpen = TRUE, !.connectPromise = NoClient,
                   !.waiting = [p \in Procs |-> IF conn.waiting[p] = k THEN NoClient
                                                ELSE conn.waiting[p]],
                   !.got = [p \in Procs |-> IF conn.waiting[p] = k THEN k
                                            ELSE conn.got[p]]]
    /\ ret' = NoRet
    /\ UNCHANGED <<user, redeemed, code, initialized, clock, proc, watch>>

\* redis.connect() of client k rejects: .catch((err) => { connectPromise = null;
\* throw err }), and every caller awaiting it gets the error
ConnectRejects(k) ==
    /\ k \in conn.inflight
    /\ conn' = [conn EXCEPT !.inflight = @ \ {k},
                   !.connectPromise = NoClient,
                   !.waiting = [p \in Procs |-> IF conn.waiting[p] = k THEN NoClient
                                                ELSE conn.waiting[p]],
                   !.got = [p \in Procs |-> IF conn.waiting[p] = k THEN ConnFailed
                                            ELSE conn.got[p]]]
    /\ ret' = NoRet
    /\ UNCHANGED <<user, redeemed, code, initialized, clock, proc, watch>>

\* the open client is closed (the connection is given up): client.isOpen is false
ClientCloses ==
    /\ conn.client # NoClient /\ conn.isOpen
    /\ conn' = [conn EXCEPT !.isOpen = FALSE]
    /\ ret' = NoRet
    /\ UNCHANGED <<user, redeemed, code, initialized, clock, proc, watch>>

\* ---- getAdminStats(): the scans over the code keys and the user keys
\* key.endsWith(':codes'), for the keys the user ids in play give
endsWithCodes(key) == \E v \in AllUsers : key = userKey(v) \o ":codes"

RECURSIVE SumPaid(_)
SumPaid(ids) ==
    IF ids = {} THEN 0
    ELSE LET v == CHOOSE x \in ids : TRUE
         IN  HGetNum(user[v], "paidCredits") + SumPaid(ids \ {v})

\* the keys of the pattern user:* that the second loop counts: every key that
\* exists and does not end with ':codes', given here by the id of its account
CountedUsers == {v \in AllUsers : user[v].exists /\ ~endsWithCodes(userKey(v))}

\* the scans of a call during which no other request reaches the store
getAdminStats(p) ==
    /\ Passed(p) /\ proc[p].route \in {"none", "adminStats"}
    /\ LET codes == {c \in AllCodes : code[c].exists}
       IN  ret' = Reply([NoRet EXCEPT !.op = "stats", !.ok = TRUE,
                   !.stats = [codeCount |-> Cardinality(codes),
                              activeCodeCount |->
                                  Cardinality({c \in codes : isTruthy(code[c].active)}),
                              exhaustedCodeCount |->
                                  Cardinality({c \in codes :
                                                  code[c].usedCount >= code[c].maxUses}),
                              userCount |-> Cardinality(CountedUsers),
                              totalPaidCredits |-> SumPaid(CountedUsers)]])
    /\ proc' = [proc EXCEPT ![p] = Idle]
    /\ UNCHANGED <<user, redeemed, code, initialized, clock, watch>>
    /\ UNCHANGED conn

\* ---- the admin routes: requireAdmin(req) in front of every handler
\* values of ADMIN_API_TOKEN, of the authorization header and of x-admin-token;
\* <<>> is a variable that is not set or a header that was not sent
EnvTokens == { <<>>, <<" ">>, <<"t", " ">> }
AuthHeaders == { <<>>, <<"Bearer ", "t">>, <<"Bearer ", "x">>, <<"t">> }
XTokens == { <<>>, <<"t">> }

ErrNoAdminToken == "ADMIN_API_TOKEN is not configured"

\* String.prototype.trim()
Trim(str) == TrimEnd(TrimStart(str))

\* bearer.startsWith('Bearer ') ? bearer.slice('Bearer '.length).trim()
\*                              : (req.headers.get('x-admin-token') || '').trim()
getAdminTokenFromRequest(req) ==
    IF Len(req.authorization) > 0 /\ Head(req.authorization) = "Bearer "
    THEN Trim(Tail(req.authorization))
    ELSE Trim(req.xtoken)

\* the test of the blank configuration and the test !actual are left out
requireAdmin_NoBlankTests(env, req) ==
    IF getAdminTokenFromRequest(req) # Trim(env) THEN 401 ELSE 0

\* the status of the response requireAdmin returns, 0 for null
requireAdmin(env, req) ==
    LET expected == Trim(env)
        actual == getAdminTokenFromRequest(req)
    IN  IF expected = <<>> THEN 500
        ELSE IF actual = <<>> \/ actual # expected THEN 401
        ELSE 0

AdminRoutes == {"adminList", "adminCreate", "adminGet", "adminPatch", "adminStats",
                "adminQuota", "adminCredits"}

\* const unauthorized = requireAdmin(req); if (unauthorized) return unauthorized
\* -- the first two lines of each of the seven handlers
AdminStart(p, r, env, req) ==
    /\ proc[p].pc = "idle" /\ proc[p].route = "none"
    /\ LET gate == requireAdmin(env, req)
       IN  /\ ret' = Reply([NoRet EXCEPT !.op = "requireAdmin", !.status = gate,
                          !.ok = (gate = 0),
                          !.error = IF gate = 500 THEN ErrNoAdminToken
                                    ELSE IF gate = 401 THEN ErrUnauthorized ELSE "",
                          !.auth = [env |-> env, authorization |-> req.authorization,
                                    xtoken |-> req.xtoken]])
           /\ proc' = IF gate = 0 THEN [proc EXCEPT ![p] = [Idle EXCEPT !.route = r]]
                      ELSE proc
    /\ UNCHANGED <<user, redeemed, code, initialized, clock, watch>>
    /\ UNCHANGED conn

\* the orders items.sort((a, b) => b.createdAt.localeCompare(a.createdAt)) can
\* leave: newest first, records of one instant in the order the scan gave them
ListOrders(codes) ==
    { seq \in [1..Cardinality(codes) -> codes] :
        /\ \A i, j \in DOMAIN seq : i # j => seq[i] # seq[j]
        /\ \A i, j \in DOMAIN seq : i < j => code[seq[i]].createdAt >= code[seq[j]].createdAt }

\* GET codes: listRedeemCodes(cursor, limit), a scan that gives every code key
AdminCodesList(p) ==
    /\ proc[p].route = "adminList" /\ Passed(p)
    /\ \E seq \in ListOrders({c \in AllCodes : code[c].exists}) :
          ret' = Reply([NoRet EXCEPT !.op = "list", !.ok = TRUE, !.status = 200,
                                     !.result = seq])
    /\ proc' = [proc EXCEPT ![p] = Idle]
    /\ UNCHANGED <<user, redeemed, code, initialized, clock, watch>>
    /\ UNCHANGED conn

ErrMaxUses == "maxUses must be greater than 0"
PostCredits == {0, 1}
PostMaxUses == {Absent, -1, 2}

\* POST codes, lines 34-54: the body, the tests of credits and maxUses, and the
\* choice between createRedeemCodesBatch and createRedeemCode
AdminCodesPost(p, creditsIn, maxUsesIn, countIn) ==
    /\ proc[p].route = "adminCreate" /\ proc[p].pc = "idle"
    /\ LET credits == creditsIn
           maxUses == IF maxUsesIn = Absent THEN 1 ELSE maxUsesIn
           count == IF countIn = 0 THEN 1 ELSE countIn
       IN  IF credits <= 0
           THEN /\ ret' = Reply([NoRet EXCEPT !.op = "adminCreate", !.status = 400,
                               !.error = ErrCredits])
                /\ proc' = [proc EXCEPT ![p] = Idle]
           ELSE IF maxUses <= 0
           THEN /\ ret' = Reply([NoRet EXCEPT !.op = "adminCreate", !.status = 400,
                               !.error = ErrMaxUses])
                /\ proc' = [proc EXCEPT ![p] = Idle]
           ELSE /\ ret' = NoRet
                /\ proc' = [proc EXCEPT ![p] =
                       [Idle EXCEPT !.route = IF count > 1 THEN "adminBatch"
                                              ELSE "adminCreateOne",
                                    !.credits = credits, !.maxUses = maxUses,
                                    !.count = count]]
    /\ UNCHANGED <<user, redeemed, code, initialized, clock, watch>>
    /\ UNCHANGED conn

\* ---- getRedeemCode(code): redis.exists, and redis.hmGet of a record that, once
\* written, is never deleted
getRedeemCode(p, rawCode) ==
    /\ Passed(p)
    /\ LET c == normalizeCode(rawCode)
       IN  ret' = IF c \in AllCodes /\ code[c].exists
                  THEN Reply([NoRet EXCEPT !.op = "get", !.code = c, !.ok = TRUE,
                                           !.status = 200, !.rec = code[c]])
                  ELSE Reply([NoRet EXCEPT !.op = "get", !.code = c, !.status = 404,
                                           !.error = ErrNotFound])
    /\ proc' = [proc EXCEPT ![p] = Idle]
    /\ UNCHANGED <<user, redeemed, code, initialized, clock, watch>>
    /\ UNCHANGED conn

ErrActive == "active must be boolean"
PatchInputs == {"absent", "true", "false"}

\* PATCH code, lines 36-41: the body and the test typeof body.active !== 'boolean'
AdminCodePatch(p, activeIn) ==
    /\ proc[p].route = "adminPatch" /\ proc[p].pc = "idle"
    /\ IF activeIn \notin {"true", "false"}
       THEN /\ ret' = Reply([NoRet EXCEPT !.op = "adminPatch", !.status = 400,
                           !.error = ErrActive])
            /\ proc' = [proc EXCEPT ![p] = Idle]
       ELSE /\ ret' = NoRet
            /\ proc' = [proc EXCEPT ![p] =
                   [Idle EXCEPT !.route = "adminPatchCall",
                                !.active = IF activeIn = "true" THEN 1 ELSE 0]]
    /\ UNCHANGED <<user, redeemed, code, initialized, clock, watch>>
    /\ UNCHANGED conn

ErrUserId == "userId must not be empty"

\* GET user quota: the test of userId, then getQuotaSnapshot(userId)
AdminUserQuota(p, u) ==
    /\ proc[p].route = "adminQuota"
    /\ IF u = ""
       THEN /\ proc[p].pc = "idle"
            /\ ret' = Reply([NoRet EXCEPT !.op = "adminQuota", !.status = 400,
                           !.error = ErrUserId])
       ELSE /\ Passed(p)
            /\ LET q == snapshotFromValues(HGetNum(user[u], "freeUsed"),
                                           HGetNum(user[u], "paidCredits"))
               IN  ret' = Reply([NoRet EXCEPT !.op = "adminQuota", !.uid = u, !.ok = TRUE,
                                              !.status = 200, !.quota = q])
    /\ proc' = [proc EXCEPT ![p] = Idle]
    /\ UNCHANGED <<user, redeemed, code, initialized, clock, watch>>
    /\ UNCHANGED conn

\* POST credits, lines 17-26, behind the gate: userId, Math.floor(body.credits || 0)
AdminCreditsBody(p, u, halves) ==
    /\ proc[p].route = "adminCredits" /\ proc[p].pc = "idle"
    /\ LET credits == halves \div 2
       IN  IF u = ""
           THEN /\ ret' = Reply([NoRet EXCEPT !.op = "adminCredits", !.status = 400,
                               !.error = ErrUserId])
                /\ proc' = [proc EXCEPT ![p] = Idle]
           ELSE IF credits <= 0
           THEN /\ ret' = Reply([NoRet EXCEPT !.op = "adminCredits", !.uid = u,
                               !.status = 400, !.credits = credits,
                               !.error = ErrCredits])
                /\ proc' = [proc EXCEPT ![p] = Idle]
           ELSE /\ ret' = NoRet
                /\ proc' = [proc EXCEPT ![p] = [Idle EXCEPT !.uid = u, !.route = "credits",
                                                        !.credits = credits]]
    /\ UNCHANGED <<user, redeemed, code, initialized, clock, watch>>
    /\ UNCHANGED conn


\* nowIso() moves on
Tick ==
    /\ clock < MaxClock
    /\ clock' = clock + 1
    /\ ret' = NoRet
    /\ UNCHANGED <<user, redeemed, code, initialized, proc, watch>>
    /\ UNCHANGED conn

InitStore ==
    /\ user = [u \in AllUsers |-> NoUser]
    /\ redeemed = [u \in AllUsers |-> {}]
    /\ code = [c \in AllCodes |-> NoCode]
    /\ initialized = FALSE
    /\ clock = 0
    /\ proc = [p \in Procs |-> Idle]
    /\ ret = NoRet
    /\ conn = NoConn

\* ---- the quota engine alone, with the observer of consume runs
InitQuota == InitStore /\ watch = WatchIdle

NextQuota ==
    \E p \in Procs :
        \/ ensureInitialized(p)
        \/ SeedExists(p)
        \/ SeedSet(p)
        \/ \E u \in Users : consumeGenerationCredit(p, u)
        \/ \E u \in Users, from \in {"free", "paid"} : refundGenerationCredit(p, u, from)
        \/ \E u \in Users, credits \in GrantInputs : grantPaidCredits(p, u, credits)

SpecQuota == InitQuota /\ [][NextQuota]_vars

\* ---- one account of the quota engine with the clock running, replies recorded
InitClock == InitStore /\ watch = WatchReply

ClockUsers == {"u1"}

NextClock ==
    \/ Tick
    \/ \E p \in Procs :
        \/ ensureInitialized(p)
        \/ SeedExists(p)
        \/ SeedSet(p)
        \/ \E u \in ClockUsers : consumeGenerationCredit(p, u)
        \/ \E u \in ClockUsers, from \in {"free", "paid"} : refundGenerationCredit(p, u, from)
        \/ \E u \in ClockUsers, credits \in GrantInputs : grantPaidCredits(p, u, credits)

SpecClock == InitClock /\ [][NextClock]_vars

\* ---- the balance operations: consume, refund, grant and redeem of seeded codes
InitLedger == InitStore /\ watch = WatchOff

NextLedger ==
    \E p \in Procs :
        \/ ensureInitialized(p)
        \/ SeedExists(p)
        \/ SeedSet(p)
        \/ \E u \in Users : consumeGenerationCredit(p, u)
        \/ \E u \in Users, from \in {"free", "paid"} : refundGenerationCredit(p, u, from)
        \/ \E u \in Users, credits \in GrantInputs : grantPaidCredits(p, u, credits)
        \/ \E u \in Users, rawCode \in RawCodes : redeemCodeForUser(p, u, rawCode)
        \/ RedeemSnap(p)

SpecLedger == InitLedger /\ [][NextLedger]_vars

\* ---- the redeem codes: seeding, creation, activation and redemption
InitCodes == InitStore /\ watch = WatchReply

NextCodes ==
    \E p \in Procs :
        \/ ensureInitialized(p)
        \/ SeedExists(p)
        \/ SeedSet(p)
        \/ \E u \in Users, rawCode \in RawCodes : redeemCodeForUser(p, u, rawCode)
        \/ RedeemSnap(p)
        \/ \E rawCode \in CodeInputs, creditsIn \in CreditInputs,
              maxUsesIn \in MaxUsesInputs, activeIn \in ActiveInputs :
                createRedeemCode(p, rawCode, creditsIn, maxUsesIn, activeIn)
        \/ CreateSet(p)
        \/ \E rawCode \in RawCodes, active \in BOOLEAN : setRedeemCodeActive(p, rawCode, active)
        \/ ActiveSet(p)
        \/ ActiveGet(p)

SpecCodes == InitCodes /\ [][NextCodes]_vars

\* ---- redemption against running accounts: consume, redeem, activation
InitRedeem == InitStore /\ watch = WatchReply

NextRedeem ==
    \E p \in Procs :
        \/ ensureInitialized(p)
        \/ SeedExists(p)
        \/ SeedSet(p)
        \/ \E u \in ClockUsers : consumeGenerationCredit(p, u)
        \/ \E u \in Users, rawCode \in RawCodes : redeemCodeForUser(p, u, rawCode)
        \/ RedeemSnap(p)
        \/ \E rawCode \in RawCodes, active \in BOOLEAN : setRedeemCodeActive(p, rawCode, active)
        \/ ActiveSet(p)
        \/ ActiveGet(p)

SpecRedeem == InitRedeem /\ [][NextRedeem]_vars

\* ---- the generateImage handler, the store failing at any command, and grants
InitGen == InitStore /\ watch = WatchReply

NextGen ==
    \E p \in Procs :
        \/ ensureInitialized(p)
        \/ SeedExists(p)
        \/ SeedSet(p)
        \/ \E u \in ClockUsers, gate \in Gates : GenStart(p, u, gate)
        \/ \E outcome \in StoreOutcomes : GenConsume(p, outcome)
        \/ \E body \in Bodies : GenBody(p, body)
        \/ \E image \in BOOLEAN : GenCall(p, image)
        \/ \E outcome \in StoreOutcomes : GenRefund(p, outcome)
        \/ \E u \in ClockUsers, credits \in GrantInputs :
              proc[p].route = "none" /\ grantPaidCredits(p, u, credits)
        \/ \E u \in ClockUsers, op \in EngineOps, applied \in BOOLEAN :
              engineThrows(p, u, op, applied)

SpecGen == InitGen /\ [][NextGen]_vars

\* ---- the quota-status handler next to running accounts
InitStatus == InitStore /\ watch = WatchReply

NextStatus ==
    \E p \in Procs :
        \/ ensureInitialized(p)
        \/ SeedExists(p)
        \/ SeedSet(p)
        \/ \E applied \in BOOLEAN : SeedThrows(p, applied)
        \/ \E u \in Users : QuotaStart(p, u)
        \/ \E fails \in BOOLEAN : QuotaRead(p, fails)
        \/ \E u \in ClockUsers : proc[p].route = "none" /\ consumeGenerationCredit(p, u)
        \/ \E u \in ClockUsers, credits \in GrantInputs :
              proc[p].route = "none" /\ grantPaidCredits(p, u, credits)
        \/ \E u \in Users, rawCode \in RawCodes :
              proc[p].route = "none" /\ redeemCodeForUser(p, u, rawCode)
        \/ \E u \in Users, rawCode \in RawCodes :
              proc[p].route = "none" /\ redeemEmptyThrows(p, u, rawCode)
        \/ RedeemSnap(p)

SpecStatus == InitStatus /\ [][NextStatus]_vars

\* ---- two visitors whose keys meet: consume, grant and redemption
InitKeys == InitStore /\ watch = WatchReply

NextKeys ==
    \E p \in Procs :
        \/ ensureInitialized(p)
        \/ SeedExists(p)
        \/ SeedSet(p)
        \/ \E u \in KeyUsers : ~HoldsSet(userKey(u)) /\ consumeGenerationCredit(p, u)
        \/ \E u \in KeyUsers, credits \in GrantInputs :
              ~HoldsSet(userKey(u)) /\ grantPaidCredits(p, u, credits)
        \/ \E u \in KeyUsers, op \in {"consume", "refund", "grant"} : accountThrows(p, u, op)
        \/ \E u \in KeyUsers, rawCode \in RawCodes :
              /\ redeemWrongType(u, normalizeCode(rawCode)) = "none"
              /\ redeemCodeForUser(p, u, rawCode)
        \/ \E u \in KeyUsers, rawCode \in RawCodes : redeemThrows(p, u, rawCode)
        \/ ~HoldsSet(userKey(proc[p].uid)) /\ RedeemSnap(p)
        \/ redeemSnapThrows(p)
        \/ getAdminStats(p)

SpecKeys == InitKeys /\ [][NextKeys]_vars

\* ---- the admin credits route next to a running account
InitAdmin == InitStore /\ watch = WatchReply

NextAdmin ==
    \E p \in Procs :
        \/ ensureInitialized(p)
        \/ SeedExists(p)
        \/ SeedSet(p)
        \/ \E u \in Users, admin \in BOOLEAN, halves \in CreditHalves :
              AdminCreditsStart(p, u, admin, halves)
        \/ AdminCreditsGrant(p)
        \/ \E u \in ClockUsers : proc[p].route = "none" /\ consumeGenerationCredit(p, u)
        \/ \E u \in ClockUsers, credits \in GrantInputs :
              proc[p].route = "none" /\ grantPaidCredits(p, u, credits)

SpecAdmin == InitAdmin /\ [][NextAdmin]_vars

\* ---- batches of generated codes next to single creations
InitBatch == InitStore /\ watch = WatchReply

NextBatch ==
    \E p \in Procs :
        \/ ensureInitialized(p)
        \/ SeedExists(p)
        \/ SeedSet(p)
        \/ \E countIn \in CountInputs, creditsIn \in CreditInputs :
              createRedeemCodesBatch(p, countIn, creditsIn, Absent)
        \/ \E gen \in BatchCodes : BatchTry(p, gen)
        \/ BatchSet(p)
        \/ \E applied \in BOOLEAN : BatchThrows(p, applied)
        \/ \E creditsIn \in CreditInputs, maxUsesIn \in MaxUsesInputs :
              proc[p].route = "none" /\ createRedeemCode(p, <<>>, creditsIn, maxUsesIn, "absent")
        \/ CreateSet(p)

\* a turn of the loop whose generated code is not in the store
BatchFresh(p) == \E gen \in BatchCodes : ~code[normalizeCode(gen)].exists /\ BatchTry(p, gen)

\* Every suspended handler is resumed (the event loop runs every continuation),
\* and the generator does not give existing codes forever while others are left.
BatchFairness ==
    \A p \in Procs :
        /\ WF_vars(ensureInitialized(p) \/ SeedExists(p) \/ SeedSet(p))
        /\ WF_vars(BatchSet(p))
        /\ WF_vars(BatchFresh(p))

SpecBatch == InitBatch /\ [][NextBatch]_vars /\ BatchFairness

\* ---- the connection module under concurrent callers
InitClient == InitStore /\ watch = WatchOff

NextClient ==
    \/ \E p \in Procs, url \in BOOLEAN : getRedisClient(p, url)
    \/ \E k \in 1..MaxAttempts : ConnectResolves(k)
    \/ \E k \in 1..MaxAttempts : ConnectRejects(k)
    \/ ClientCloses

SpecClient == InitClient /\ [][NextClient]_vars

\* ---- one account under concurrent consume, refund, grant and redemption
InitSerial == InitStore /\ watch = WatchReply

NextSerial ==
    \E p \in Procs :
        \/ ensureInitialized(p)
        \/ SeedExists(p)
        \/ SeedSet(p)
        \/ \E u \in ClockUsers : consumeGenerationCredit(p, u)
        \/ \E u \in ClockUsers, from \in {"free", "paid"} : refundGenerationCredit(p, u, from)
        \/ \E u \in ClockUsers, credits \in GrantInputs : grantPaidCredits(p, u, credits)
        \/ \E u \in ClockUsers, rawCode \in RawCodes : redeemCodeForUser(p, u, rawCode)
        \/ RedeemSnap(p)

SpecSerial == InitSerial /\ [][NextSerial]_vars

\* ---- the admin routes behind requireAdmin
InitGate == InitStore /\ watch = WatchReply

\* the routes in which the handler is inside an engine function
EngineRoutes == {"adminList", "adminCreateOne", "batch", "adminGet", "adminPatchCall",
                 "adminStats", "adminQuota", "credits"}
GateUsers == {"", "u1"}
GateCodes == { <<"s">>, <<" ", "a">> }
\* requests to the admin routes come one after the other
GateProcs == {"p1"}

NextGate ==
    \E p \in GateProcs :
        \/ \E r \in AdminRoutes, env \in EnvTokens,
              authorization \in AuthHeaders, xtoken \in XTokens :
              AdminStart(p, r, env, [authorization |-> authorization, xtoken |-> xtoken])
        \/ proc[p].route \in EngineRoutes /\ ensureInitialized(p)
        \/ SeedExists(p)
        \/ SeedSet(p)
        \/ AdminCodesList(p)
        \/ \E creditsIn \in PostCredits, maxUsesIn \in PostMaxUses, countIn \in CountInputs :
              AdminCodesPost(p, creditsIn, maxUsesIn, countIn)
        \/ \E rawCode \in CodeInputs :
              /\ proc[p].route = "adminCreateOne"
              /\ createRedeemCode(p, rawCode, proc[p].credits, proc[p].maxUses, "true")
        \/ CreateSet(p)
        \/ /\ proc[p].route = "adminBatch"
           /\ createRedeemCodesBatch(p, proc[p].count, proc[p].credits, proc[p].maxUses)
        \/ \E gen \in BatchCodes : BatchTry(p, gen)
        \/ BatchSet(p)
        \/ \E rawCode \in GateCodes : proc[p].route = "adminGet" /\ getRedeemCode(p, rawCode)
        \/ \E activeIn \in PatchInputs : AdminCodePatch(p, activeIn)
        \/ \E rawCode \in GateCodes :
              /\ proc[p].route = "adminPatchCall"
              /\ setRedeemCodeActive(p, rawCode, proc[p].active = 1)
        \/ ActiveSet(p)
        \/ ActiveGet(p)
        \/ proc[p].route = "adminStats" /\ getAdminStats(p)
        \/ \E u \in GateUsers : AdminUserQuota(p, u)
        \/ \E u \in GateUsers, halves \in CreditHalves : AdminCreditsBody(p, u, halves)
        \/ AdminCreditsGrant(p)

SpecGate == InitGate /\ [][NextGate]_vars

\* ---- one code under several spellings: redeem, create, get and setActive
InitNorm == InitStore /\ watch = WatchReply

\* spellings of the seeded code and of one more code, and a blank string
NormRaws == { <<"s">>, <<" ", "S">>, <<"s", " ">>, <<"a">>, <<" ", "A", " ">>, <<" ">> }

NextNorm ==
    \E p \in Procs :
        \/ ensureInitialized(p)
        \/ SeedExists(p)
        \/ SeedSet(p)
        \/ \E u \in ClockUsers, rawCode \in NormRaws : redeemCodeForUser(p, u, rawCode)
        \/ RedeemSnap(p)
        \/ \E rawCode \in NormRaws, creditsIn \in CreditInputs :
              createRedeemCode(p, rawCode, creditsIn, Absent, "absent")
        \/ CreateSet(p)
        \/ \E rawCode \in NormRaws : getRedeemCode(p, rawCode)
        \/ \E rawCode \in NormRaws, active \in BOOLEAN : setRedeemCodeActive(p, rawCode, active)
        \/ ActiveSet(p)
        \/ ActiveGet(p)

SpecNorm == InitNorm /\ [][NextNorm]_vars

\* ---- the whole ledger: every engine operation, any interleaving
Init == InitStore /\ watch = WatchOff

Next ==
    \E p \in Procs :
        \/ ensureInitialized(p)
        \/ SeedExists(p)
        \/ SeedSet(p)
        \/ \E u \in Users : consumeGenerationCredit(p, u)
        \/ \E u \in Users, from \in {"free", "paid"} : refundGenerationCredit(p, u, from)
        \/ \E u \in Users, credits \in GrantInputs : grantPaidCredits(p, u, credits)
        \/ \E u \in Users, rawCode \in RawCodes : redeemCodeForUser(p, u, rawCode)
        \/ RedeemSnap(p)
        \/ \E rawCode \in CodeInputs, creditsIn \in CreditInputs,
              maxUsesIn \in MaxUsesInputs, activeIn \in ActiveInputs :
                createRedeemCode(p, rawCode, creditsIn, maxUsesIn, activeIn)
        \/ CreateSet(p)
        \/ \E rawCode \in RawCodes, active \in BOOLEAN : setRedeemCodeActive(p, rawCode, active)
        \/ ActiveSet(p)
        \/ ActiveGet(p)

Spec == Init /\ [][Next]_vars

\* ------------------------------------------------------------------ claims
\* the counters as every reader sees them (a missing field reads as 0)
FreeUsedOf(u) == HGetNum(user[u], "freeUsed")
PaidOf(u) == HGetNum(user[u], "paidCredits")
TotalOf(u) == snapshotFromValues(FreeUsedOf(u), PaidOf(u)).totalRemaining

Min(a, b) == IF a <= b THEN a ELSE b

\* the users whose redemption of code c succeeded
Redeemers(c) == {u \in Users : c \in redeemed[u]}

\* C1 -- No double-spend.  In every run of consume calls of one user that started
\* with totalRemaining = N and was interrupted by no other write to that user, the
\* first N calls are allowed and every further call is denied: of N+k calls exactly
\* N return allowed=true and exactly k return allowed=false.
C1_NoDoubleSpend ==
    watch.mode = "run" =>
        LET N == snapshotFromValues(watch.f0, watch.p0).totalRemaining
            calls == watch.ok + watch.denied
        IN  /\ watch.ok = Min(N, calls)
            /\ watch.denied = calls - Min(N, calls)

\* a run that started with both buckets filled, used them up and was then denied
C1_Witness ==
    /\ watch.mode = "run"
    /\ watch.f0 < FREE_QUOTA_LIMIT /\ watch.p0 >= 1
    /\ watch.ok >= 2 /\ watch.denied >= 1

\* C2 -- Redeem global cap (the claim as stated).  The number of distinct users
\* whose redemption of a code returned ok=true never exceeds the code's maxUses.
C2_RedeemGlobalCap ==
    \A c \in Codes : code[c].exists => Cardinality(Redeemers(c)) <= code[c].maxUses

\* ---- C3: the transaction of a redemption, seen in one step
\* handler p ran the redeem script in this step and it refused
RedeemRefused(p) == proc[p].pc # "redeemSnap" /\ proc'[p].pc = "redeemSnap"
\* a redemption succeeded in this step
RedeemSucceeded == ret'.op = "redeem" /\ ret'.ok
LedgerUnchanged == user' = user /\ redeemed' = redeemed /\ code' = code

\* C3 (the claim as stated) -- a redemption succeeds only for a (user, code) pair
\* that has not succeeded before, and every attempt after a success is refused with
\* the 'already used' error and changes nothing.
C3_AlreadyUsedAlways ==
    [][ /\ RedeemSucceeded => ret'.code \notin redeemed[ret'.uid]
        /\ \A p \in Procs :
             RedeemRefused(p) /\ proc'[p].code \in redeemed[proc'[p].uid]
                => proc'[p].err = ErrAlready /\ LedgerUnchanged ]_vars

\* C3 (amended) -- Redeem single-use-per-user.  A redemption succeeds only for a
\* (user, code) pair that has not succeeded before; an attempt after a success is
\* refused and changes nothing, with the 'already used' error when the code is
\* active at that moment and the 'invalid or expired' error when it is inactive;
\* an attempt by a user who has not redeemed the code is never refused while the
\* code is active and usedCount < maxUses.
C3_RedeemOncePerUser ==
    [][ /\ RedeemSucceeded => ret'.code \notin redeemed[ret'.uid]
        /\ \A p \in Procs :
             RedeemRefused(p) =>
                LET u == proc'[p].uid
                    c == proc'[p].code
                IN  /\ LedgerUnchanged
                    /\ c \in redeemed[u] =>
                          proc'[p].err = (IF isTruthy(code[c].active)
                                          THEN ErrAlready ELSE ErrInvalid)
                    /\ c \notin redeemed[u] =>
                          ~(code[c].exists /\ isTruthy(code[c].active)
                              /\ code[c].usedCount < code[c].maxUses) ]_vars

\* a user was told 'already used' on a code that still has uses left for others
C3_Witness ==
    /\ ret.op = "redeem" /\ ret.error = ErrAlready
    /\ ret.code \in redeemed[ret.uid]
    /\ code[ret.code].usedCount < code[ret.code].maxUses

\* C4 -- paidCredits is never negative, for any user, in any reachable state.
C4_PaidNonNegative ==
    \A u \in Users : user[u].paidCredits >= 0

\* a user who redeemed a code and has spent every free and paid credit
C4_Witness ==
    \E u \in Users :
        /\ redeemed[u] # {}
        /\ user[u].freeUsed = FREE_QUOTA_LIMIT
        /\ user[u].paidCredits = 0

\* C5 -- 0 <= freeUsed <= FREE_QUOTA_LIMIT, for any user, in any reachable state.
C5_FreeUsedInRange ==
    \A u \in Users : user[u].freeUsed >= 0 /\ user[u].freeUsed <= FREE_QUOTA_LIMIT

\* one user at the upper end with paid credits left, another written at the lower end
C5_Witness ==
    \E u, v \in Users :
        /\ user[u].freeUsed = FREE_QUOTA_LIMIT /\ user[u].paidCredits >= 1
        /\ user[v].exists /\ user[v].freeUsed = 0

\* C6 -- 0 <= usedCount <= maxUses for every stored code record.
C6_UsedCountInRange ==
    \A c \in Codes :
        code[c].exists => code[c].usedCount >= 0 /\ code[c].usedCount <= code[c].maxUses

\* a multi-use code redeemed up to its cap
C6_Witness ==
    \E c \in Codes :
        code[c].exists /\ code[c].maxUses >= 2 /\ code[c].usedCount = code[c].maxUses

\* C7 -- Free-before-paid.  An allowed consume debits the paid bucket only if
\* freeUsed was >= FREE_QUOTA_LIMIT when the transaction ran; with freeUsed below
\* the limit it adds exactly 1 to freeUsed, reports 'free' and leaves paidCredits.
C7_FreeBeforePaid ==
    [][ \A u \in Users :
          ret'.op = "consume" /\ ret'.uid = u /\ ret'.ok =>
            IF FreeUsedOf(u) < FREE_QUOTA_LIMIT
            THEN /\ ret'.from = "free"
                 /\ user'[u].freeUsed = FreeUsedOf(u) + 1
                 /\ user'[u].paidCredits = PaidOf(u)
                 /\ ret'.quota.paidRemaining = PaidOf(u)
            ELSE /\ ret'.from = "paid"
                 /\ user'[u].freeUsed = FreeUsedOf(u)
                 /\ user'[u].paidCredits = PaidOf(u) - 1 ]_vars

\* the last free unit was taken although paid credits were available
C7_Witness ==
    /\ ret.op = "consume" /\ ret.ok /\ ret.from = "free"
    /\ ret.quota.freeRemaining = 0 /\ ret.quota.paidRemaining >= 1

\* C8 -- consume returns allowed=false exactly when max(0, LIMIT - freeUsed) +
\* paidCredits <= 0 at the transaction; then consumedFrom is absent, the user's
\* hash (counters, timestamps, existence) is unchanged and the returned quota is
\* the snapshot of the current counters.
C8_DeniedLeavesRecord ==
    [][ \A u \in Users :
          ret'.op = "consume" /\ ret'.uid = u =>
            /\ ~ret'.ok <=> (Max(0, FREE_QUOTA_LIMIT - FreeUsedOf(u)) + PaidOf(u) <= 0)
            /\ ~ret'.ok =>
                 /\ ret'.from = "undefined"
                 /\ user'[u] = user[u]
                 /\ ret'.quota = snapshotFromValues(FreeUsedOf(u), PaidOf(u)) ]_vars

\* a consume was denied at a later time than the last write to the user's hash
C8_Witness ==
    /\ ret.op = "consume" /\ ~ret.ok
    /\ user[ret.uid].exists /\ user[ret.uid].updatedAt < clock

\* C9 -- an allowed consume lowers totalRemaining by exactly 1 (one bucket moves
\* by one unit, the other stays) and returns the snapshot of the counters stored
\* right after the transaction.
C9_ConsumeLowersByOne ==
    [][ \A u \in Users :
          ret'.op = "consume" /\ ret'.uid = u /\ ret'.ok =>
            LET f == user'[u].freeUsed
                q == user'[u].paidCredits
            IN  /\ snapshotFromValues(f, q).totalRemaining = TotalOf(u) - 1
                /\ \/ f = FreeUsedOf(u) + 1 /\ q = PaidOf(u)
                   \/ f = FreeUsedOf(u) /\ q = PaidOf(u) - 1
                /\ ret'.quota = snapshotFromValues(f, q) ]_vars

\* an allowed consume that took a paid credit
C9_Witness ==
    /\ ret.op = "consume" /\ ret.ok /\ ret.from = "paid"
    /\ ret.quota = snapshotFromValues(user[ret.uid].freeUsed, user[ret.uid].paidCredits)

\* C10 -- Refund symmetry.  When an allowed consume is followed, with no other
\* write to that user in between, by a refund to the bucket it reported, the
\* stored freeUsed and paidCredits are back at their values before the consume
\* and the refund returns the snapshot of before the consume.
C10_RefundSymmetry ==
    watch.mode = "undone" =>
        /\ FreeUsedOf(watch.uid) = watch.f0
        /\ PaidOf(watch.uid) = watch.p0
        /\ ret.op = "refund" /\ ret.uid = watch.uid
              => ret.quota = snapshotFromValues(watch.f0, watch.p0)

\* a paid credit was taken and given back
C10_Witness ==
    /\ watch.mode = "undone" /\ watch.from = "paid"
    /\ ret.op = "refund" /\ ret.uid = watch.uid

\* C11 -- refund('free') sets freeUsed to max(0, freeUsed - 1) and leaves
\* paidCredits; refund('paid') adds exactly 1 to paidCredits and leaves freeUsed;
\* either returns the snapshot of the counters it stored.
C11_RefundOneUnit ==
    [][ \A u \in Users :
          ret'.op = "refund" /\ ret'.uid = u =>
            /\ IF ret'.from = "free"
               THEN /\ user'[u].freeUsed = Max(0, FreeUsedOf(u) - 1)
                    /\ user'[u].paidCredits = PaidOf(u)
               ELSE /\ user'[u].freeUsed = FreeUsedOf(u)
                    /\ user'[u].paidCredits = PaidOf(u) + 1
            /\ ret'.quota = snapshotFromValues(user'[u].freeUsed,
                                               user'[u].paidCredits) ]_vars

\* a paid refund to a user who has used free units, which stay used
C11_Witness ==
    /\ ret.op = "refund" /\ ret.from = "paid"
    /\ user[ret.uid].freeUsed >= 1 /\ user[ret.uid].freeUsed < FREE_QUOTA_LIMIT
    /\ user[ret.uid].paidCredits >= 1

\* C12 -- a successful redeemCodeForUser(userId, code) changes exactly this, in
\* one transaction: the code's usedCount goes up by 1, the code joins the user's
\* redeemed set, the user's paidCredits goes up by the code's credits; freeUsed,
\* the code's credits/maxUses/active, every other user and every other code stay,
\* and the returned quota is the snapshot of the user's new counters.
C12_RedeemFrame ==
    [][ RedeemSucceeded =>
          LET u == ret'.uid
              c == ret'.code
          IN  /\ code'[c].usedCount = code[c].usedCount + 1
              /\ code'[c].credits = code[c].credits
              /\ code'[c].maxUses = code[c].maxUses
              /\ code'[c].active = code[c].active
              /\ code'[c].exists
              /\ \A d \in Codes \ {c} : code'[d] = code[d]
              /\ redeemed'[u] = redeemed[u] \cup {c}
              /\ user'[u].paidCredits = PaidOf(u) + code[c].credits
              /\ user'[u].freeUsed = FreeUsedOf(u)
              /\ \A v \in Users \ {u} : user'[v] = user[v] /\ redeemed'[v] = redeemed[v]
              /\ ret'.quota = snapshotFromValues(user'[u].freeUsed,
                                                 user'[u].paidCredits) ]_vars

\* a redemption by a user who has used free units
C12_Witness ==
    /\ ret.op = "redeem" /\ ret.ok
    /\ user[ret.uid].freeUsed >= 1
    /\ ret.quota.freeRemaining = FREE_QUOTA_LIMIT - user[ret.uid].freeUsed
    /\ ret.quota.paidRemaining = code[ret.code].credits

\* the four conditions of a redemption, on the store as the transaction finds it
Redeemable(u, c) ==
    /\ c \in Codes /\ code[c].exists
    /\ isTruthy(code[c].active)
    /\ c \notin redeemed[u]
    /\ code[c].usedCount < code[c].maxUses

\* C13 -- redeemCodeForUser returns ok=true if and only if, when the transaction
\* runs, the normalized code exists, is active, is not in the user's redeemed set
\* and has usedCount < maxUses; so an inactive code is redeemable by nobody.
C13_RedeemIff ==
    [][ /\ RedeemSucceeded => Redeemable(ret'.uid, ret'.code)
        /\ \A p \in Procs :
             RedeemRefused(p) => ~Redeemable(proc'[p].uid, proc'[p].code)
        /\ ret'.op = "redeem" /\ ret'.error = ErrEmpty =>
             \A u \in Users : ~Redeemable(u, ret'.code) ]_vars

\* a user who never redeemed it is refused an inactive code that has uses left
C13_Witness ==
    /\ ret.op = "redeem" /\ ret.error = ErrInvalid
    /\ code[ret.code].exists /\ ~isTruthy(code[ret.code].active)
    /\ code[ret.code].usedCount >= 1
    /\ code[ret.code].usedCount < code[ret.code].maxUses
    /\ ret.code \notin redeemed[ret.uid]

RefusedResult(u, crec, c) ==
    LET r == RedeemScript(user[u], redeemed[u], crec, c, clock)
    IN  [ok |-> r.reply.flag = 1, error |-> r.reply.error,
         quota |-> snapshotFromValues(HGetNum(r.user, "freeUsed"),
                                      HGetNum(r.user, "paidCredits")),
         user |-> r.user, set |-> r.set]

\* C15 -- Non-enumerability.  For the same user and the same ledger state,
\* redeeming a code that does not exist and redeeming a code that exists with
\* active=false give the same result (ok=false, the 'invalid or expired' error,
\* the same quota), whatever the inactive code's usedCount, maxUses and credits
\* and whether or not the user redeemed it before it was deactivated; and every
\* refusal the engine actually hands out for such a code is that result.
C15_NonEnumerable ==
    [][ /\ \A u \in Users, c \in Codes :
             code[c].exists /\ ~isTruthy(code[c].active) =>
                /\ RefusedResult(u, code[c], c) = RefusedResult(u, NoCode, c)
                /\ ~RefusedResult(u, code[c], c).ok
                /\ RefusedResult(u, code[c], c).error = ErrInvalid
        /\ \A p \in Procs :
             RedeemRefused(p) /\ ~isTruthy(code[proc'[p].code].active) =>
                proc'[p].err = ErrInvalid
        /\ \A p \in Procs :
             proc[p].pc = "redeemSnap" /\ proc'[p].pc = "idle" =>
                /\ ret'.error = proc[p].err /\ ~ret'.ok
                /\ ret'.quota = snapshotFromValues(FreeUsedOf(proc[p].uid),
                                                   PaidOf(proc[p].uid)) ]_vars

\* 'invalid or expired' for a deactivated multi-use code the caller redeemed earlier
C15_Witness ==
    /\ ret.op = "redeem" /\ ret.error = ErrInvalid
    /\ code[ret.code].exists /\ ~isTruthy(code[ret.code].active)
    /\ ret.code \in redeemed[ret.uid]
    /\ code[ret.code].maxUses >= 2 /\ code[ret.code].usedCount >= 1
    /\ ret.quota.paidRemaining >= 1

\* code c is active and as many users have redeemed it as its maxUses allows
CapReached(c) ==
    /\ c \in Codes /\ code[c].exists /\ isTruthy(code[c].active)
    /\ Cardinality(Redeemers(c)) >= code[c].maxUses

\* C16 (the claim as stated) -- once an active code with maxUses = M has had M
\* successful redemptions, the next redemption attempt by any user, one who
\* already redeemed it included, is refused with the 'code exhausted' error.
C16_ExhaustedAfterCap ==
    [][ /\ RedeemSucceeded => ~CapReached(ret'.code)
        /\ \A p \in Procs :
             RedeemRefused(p) /\ CapReached(proc'[p].code) =>
                proc'[p].err = ErrExhausted ]_vars

\* C17 (the claim as stated) -- createRedeemCode never overwrites an existing
\* code: a create that finds the code fails with 'already exists' and leaves the
\* record; under any interleaving of creates of one code with each other and
\* with redemptions, a create succeeds only for a code that is not stored when
\* it writes, so at most one succeeds and no usedCount is ever reset to 0.
C17_CreateNeverOverwrites ==
    [][ /\ ret'.op = "create" /\ ret'.ok => ~code[ret'.code].exists
        /\ ret'.op = "create" /\ ~ret'.ok => code' = code
        /\ ret'.op = "create" /\ ret'.error = ErrExists => code[ret'.code].exists ]_vars

\* handler p runs the hSet of seedCodesFromEnv in this step
SeedWrites(p) == proc[p].pc = "seedSet" /\ proc'[p].pc # "seedSet"

\* C18 (the claim as stated) -- seeding never overwrites: whenever the seed
\* import writes a code, in whatever interleaving with other imports, with
\* redemptions and with setRedeemCodeActive, that code was not stored, and it is
\* created with the configured credits, maxUses=1, usedCount=0, active=true; a
\* stored record is never reset.
C18_SeedNeverOverwrites ==
    [][ \A p \in Procs :
          SeedWrites(p) =>
            LET e == SeedList[proc[p].i]
            IN  /\ ~code[e.code].exists
                /\ code'[e.code].exists
                /\ code'[e.code].credits = e.credits
                /\ code'[e.code].maxUses = 1
                /\ code'[e.code].usedCount = 0
                /\ isTruthy(code'[e.code].active)
                /\ \A d \in Codes \ {e.code} : code'[d] = code[d] ]_vars

\* the handlers that are inside the body of seedCodesFromEnv
Seeding == {p \in Procs : proc[p].pc \in {"seedExists", "seedSet"}}

\* C19 (the claim as stated) -- within one process the seed import runs at most
\* once: of the engine calls that pass through ensureInitialized, also of those
\* that start before the first import has finished, at most one executes the
\* body of seedCodesFromEnv.
C19_SeedAtMostOnce ==
    /\ Cardinality(Seeding) <= 1
    /\ initialized => Seeding = {}

\* C20 -- store failure on the write path is fatal to the request.  When
\* consumeGenerationCredit throws in the generateImage handler, the image service
\* is never called, the request ends with an error response and issues no refund;
\* the handler goes on to the body and the image service only with a consume that
\* the engine reported as allowed; and an engine function whose store command
\* fails (consume, refund, redeem, grant) throws instead of returning a value.
C20_StoreFailureIsFatal ==
    [][ /\ \A p \in Procs :
             proc[p].route = "consume" /\ proc'[p].route = "body" =>
                /\ ret'.op = "consume" /\ ret'.ok /\ ret'.uid = proc[p].uid
                /\ ret'.from \in {"free", "paid"} /\ proc'[p].from = ret'.from
        /\ \A p \in Procs :
             proc[p].route = "consume" /\ proc'[p].route = "none"
               /\ ret'.error = ErrStore =>
                /\ ret'.op = "generateImage" /\ ~ret'.ok /\ ret'.status >= 400
                /\ ~ret'.called /\ ret'.refunds = 0 /\ ret'.from = "undefined"
                /\ proc'[p] = Idle
        /\ \A p \in Procs :
             proc'[p].called \/ proc'[p].refunds > 0 => proc'[p].from \in {"free", "paid"}
        /\ ret'.op = "generateImage" /\ (ret'.called \/ ret'.refunds > 0) =>
             ret'.from \in {"free", "paid"}
        /\ ret'.op \in EngineOps /\ ret'.error = ErrStore => ~ret'.ok ]_vars

\* a request ended with the store error of a consume whose script did run: the
\* unit is gone, nothing was generated, nothing refunded
C20_Witness ==
    /\ ret.op = "generateImage" /\ ret.error = ErrStore /\ ret.from = "undefined"
    /\ ret.status = 400 /\ ~ret.called /\ ret.refunds = 0
    /\ user[ret.uid].exists /\ user[ret.uid].freeUsed = 1
    /\ \A p \in Procs : proc[p].route = "none"

\* C21 (the claim as stated) -- generation control flow.  In every execution of
\* the generateImage handler the image service is called only after a consume
\* that returned allowed=true; a request that fails after that (unreadable body,
\* missing prompt, generation error) is followed by a refund for the same user
\* and bucket; a successful generation issues no refund; so a successful request
\* costs exactly one unit and a failed one, once its refund completed, costs zero.
C21_GenerationControlFlow ==
    [][ /\ \A p \in Procs :
             proc[p].route = "consume" /\ proc'[p].route \notin {"consume", "none"} =>
                ret'.op = "consume" /\ ret'.ok /\ ret'.uid = proc[p].uid
        /\ \A p \in Procs :
             proc'[p].called \/ proc'[p].route = "generate" =>
                proc'[p].from \in {"free", "paid"}
        /\ ret'.op = "generateImage" /\ ret'.status = 200 =>
             /\ ret'.called /\ ret'.from \in {"free", "paid"}
             /\ ret'.refunds = 0 /\ ret'.applied = 0
        /\ ret'.op = "generateImage" /\ ret'.status = 400
              /\ ret'.from \in {"free", "paid"} =>
             ret'.refunds >= 1 /\ ret'.applied = 1 ]_vars

\* handler p, inside getQuotaSnapshot for the quota-status request, takes this step
SnapshotStep(p) == proc[p].route = "quota" /\ proc'[p] # proc[p]

\* C22 (the claim as stated) -- snapshot purity.  getQuotaSnapshot never changes
\* stored state: whatever the store holds, a call leaves every user record, code
\* record and redeemed set as it was, and returns the snapshot of the stored
\* counters (so repeated calls with nothing in between return the same).
C22_SnapshotPure ==
    [][ \A p \in Procs :
          SnapshotStep(p) =>
            /\ LedgerUnchanged
            /\ ret'.op = "quotaStatus" /\ ret'.ok =>
                  ret'.quota = snapshotFromValues(FreeUsedOf(proc[p].uid),
                                                 PaidOf(proc[p].uid)) ]_vars

\* C22 (amended) -- the read of getQuotaSnapshot never changes stored state: a
\* call leaves every user record and redeemed set as it was, creates no user
\* record, and returns the snapshot of the stored counters (so repeated calls
\* with nothing in between return the same); the only write a call can make is
\* the hSet of the seed import that its ensureInitialized runs when it found
\* the latch unset, and that writes the record of one configured seed code.
C22_SnapshotReadPure ==
    [][ \A p \in Procs :
          SnapshotStep(p) =>
            /\ user' = user /\ redeemed' = redeemed
            /\ code' # code =>
                  /\ proc[p].pc = "seedSet"
                  /\ \A d \in Codes \ {SeedList[proc[p].i].code} : code'[d] = code[d]
            /\ ret'.op = "quotaStatus" /\ ret'.ok =>
                  /\ code' = code
                  /\ ret'.quota = snapshotFromValues(FreeUsedOf(proc[p].uid),
                                                     PaidOf(proc[p].uid)) ]_vars

\* the snapshot of a user without a record was read, and there is still none,
\* while another account has used units
C22_Witness ==
    /\ ret.op = "quotaStatus" /\ ret.ok
    /\ ~user[ret.uid].exists
    /\ ret.quota = snapshotFromValues(0, 0)
    /\ \E v \in Users : user[v].exists /\ user[v].freeUsed >= 1

\* the quota-status handler answered from its catch block in this step
DegradedReply == ret'.op = "quotaStatus" /\ ret'.error = ErrQuotaUnavailable

\* C23 (the claim as stated) -- degraded read.  When getQuotaSnapshot fails
\* because a store command rejects, the quota-status handler answers with the
\* all-zero snapshot and quotaUnavailable=true, never with a positive balance,
\* and the ledger is not modified.
C23_DegradedReadNoWrite ==
    [][ /\ DegradedReply =>
             /\ ~ret'.ok /\ ret'.quota = QuotaOf(0, 0)
             /\ LedgerUnchanged
        /\ ret'.op = "quotaStatus" /\ ret'.quota.totalRemaining > 0 =>
             ret'.ok /\ ret'.error = "" ]_vars

\* C23 (amended) -- degraded read.  When getQuotaSnapshot fails because a store
\* command rejects, the quota-status handler answers with the all-zero snapshot
\* and quotaUnavailable=true, never with a positive balance; no user record and
\* no redeemed set is modified, and the only record the failed call can have
\* written is a configured seed code's, by the hSet of the seed import.
C23_DegradedRead ==
    [][ /\ DegradedReply =>
             /\ ~ret'.ok /\ ret'.quota = QuotaOf(0, 0)
             /\ user' = user /\ redeemed' = redeemed
             /\ \A p \in Procs :
                  proc'[p] # proc[p] /\ code' # code =>
                     /\ proc[p].pc = "seedSet"
                     /\ \A d \in Codes \ {SeedList[proc[p].i].code} : code'[d] = code[d]
        /\ ret'.op = "quotaStatus" /\ ret'.quota.totalRemaining > 0 =>
             ret'.ok /\ ret'.error = "" ]_vars

\* the all-zero snapshot was reported for an account that holds paid credits
C23_Witness ==
    /\ ret.op = "quotaStatus" /\ ret.error = ErrQuotaUnavailable
    /\ ret.quota.totalRemaining = 0
    /\ user[ret.uid].paidCredits >= 1 /\ user[ret.uid].freeUsed >= 1

\* no key holds a hash and a set at once
KeyTypeOK == \A u \in AllUsers : ~(HoldsSet(userKey(u)) /\ HoldsHash(userKey(u)))

\* C24: cross-user independence.  A consume, refund, grant or redemption made for
\* one user leaves the counters and the redemption set of every other user as they
\* were, the set still readable as a set; and a consume or grant made for a user
\* is answered from that user's own counters alone: consume is allowed exactly when
\* the user has a credit left, a grant always succeeds, neither throws.
C24_CrossUserIndependence ==
    [][\A a \in KeyUsers :
         (ret'.uid = a /\ ret'.op \in {"consume", "refund", "grant", "redeem"}) =>
            /\ \A b \in KeyUsers \ {a} :
                  /\ FreeUsedOf(b)' = FreeUsedOf(b)
                  /\ PaidOf(b)' = PaidOf(b)
                  /\ redeemed'[b] = redeemed[b]
                  /\ HoldsHash(userRedeemSetKey(b))' = HoldsHash(userRedeemSetKey(b))
            /\ ret'.op = "consume" => (ret'.error = "" /\ ret'.ok = (TotalOf(a) > 0))
            /\ ret'.op = "grant" => (ret'.error = "" /\ ret'.ok)]_vars

\* C25: the end-to-end scenario, step by step.  An account that was never written
\* reads as {free 8, paid 0, total 8}.  With no paid credits, each of the first 8
\* consume calls is allowed from 'free' and uses one free unit; at 8 used the
\* snapshot reads {0, 0, 0} and the 9th consume is denied and changes nothing.
\* Redeeming a valid, active, unused 5-credit code then answers {free 0, paid 5,
\* total 5}, and the next consume is allowed from 'paid'.
C25_Scenario ==
    [][\A u \in ClockUsers :
         LET f == FreeUsedOf(u)
             paid == PaidOf(u)
         IN  /\ (ret'.op = "quotaStatus" /\ ret'.uid = u /\ ret'.ok /\ ~user[u].exists)
                    => ret'.quota = QuotaOf(8, 0)
             /\ (ret'.op = "quotaStatus" /\ ret'.uid = u /\ ret'.ok /\ f = 8 /\ paid = 0)
                    => ret'.quota = QuotaOf(0, 0)
             /\ (ret'.op = "consume" /\ ret'.uid = u /\ paid = 0 /\ f < 8)
                    => /\ ret'.ok /\ ret'.from = "free"
                       /\ FreeUsedOf(u)' = f + 1 /\ PaidOf(u)' = 0
                       /\ ret'.quota = QuotaOf(8 - (f + 1), 0)
             /\ (ret'.op = "consume" /\ ret'.uid = u /\ paid = 0 /\ f = 8)
                    => /\ ~ret'.ok
                       /\ FreeUsedOf(u)' = 8 /\ PaidOf(u)' = 0
             /\ (ret'.op = "redeem" /\ ret'.uid = u /\ ret'.ok /\ ret'.credits = 5
                   /\ paid = 0 /\ f = 8)
                    => /\ ret'.quota = QuotaOf(0, 5)
                       /\ FreeUsedOf(u)' = 8 /\ PaidOf(u)' = 5
             /\ (ret'.op = "consume" /\ ret'.uid = u /\ paid = 5 /\ f = 8)
                    => /\ ret'.ok /\ ret'.from = "paid"
                       /\ FreeUsedOf(u)' = 8 /\ PaidOf(u)' = 4]_vars

\* the scenario has run to its end: 8 free units used, the 5-credit code redeemed,
\* and the consume after it was just answered from 'paid'
C25_Witness ==
    \E u \in ClockUsers :
        /\ ret.op = "consume" /\ ret.uid = u /\ ret.ok /\ ret.from = "paid"
        /\ FreeUsedOf(u) = 8 /\ PaidOf(u) = 4
        /\ redeemed[u] = {<<"S">>}
        /\ ret.quota = QuotaOf(0, 4)

\* a redeemCodeForUser call whose code is empty after trimming has just ended
EmptyCodeReturn(u) == ret.op = "redeem" /\ ret.uid = u /\ ret.code = <<>>

\* C26 as stated: redeemCodeForUser with a code that is empty after trimming
\* always ends with ok=false, the validation error and the user's current
\* snapshot, changes nothing in the ledger, and performs no store access, so that
\* no state of the store can make it end otherwise.
C26_EmptyCodeNoStoreAccess ==
    [][\A u \in Users :
         EmptyCodeReturn(u)' =>
            /\ ~ret'.ok /\ ret'.error = ErrEmpty
            /\ ret'.quota = snapshotFromValues(FreeUsedOf(u), PaidOf(u))
            /\ UNCHANGED <<user, redeemed, code>>]_vars

\* C26 as the code has it: the call never reaches the redeem script and writes
\* nothing, but it reads the user's counters from the store for the snapshot it
\* returns: it ends with ok=false, the validation error and that snapshot, or,
\* when the read is rejected, by throwing the store's error.
C26_EmptyCodeReadsSnapshot ==
    [][\A u \in Users :
         EmptyCodeReturn(u)' =>
            /\ UNCHANGED <<user, redeemed, code>>
            /\ ~ret'.ok
            /\ \/ /\ ret'.error = ErrEmpty
                  /\ ret'.quota = snapshotFromValues(FreeUsedOf(u), PaidOf(u))
               \/ ret'.error = ErrStore]_vars

\* an empty code was refused for a user who has spent free units
C26_Witness ==
    \E u \in Users :
        /\ EmptyCodeReturn(u) /\ ret.error = ErrEmpty
        /\ user[u].exists /\ FreeUsedOf(u) >= 2
        /\ ret.quota = QuotaOf(FREE_QUOTA_LIMIT - FreeUsedOf(u), PaidOf(u))

\* the handler's hSet of setRedeemCodeActive is the step being taken
ActiveFlip(p) == proc[p].pc = "activeSet" /\ proc'[p].pc = "activeGet"

\* C27: setRedeemCodeActive on an existing code sets the active flag to the given
\* value and changes nothing else in the record but updatedAt: credits, maxUses,
\* usedCount and createdAt stay, so a reactivated code is redeemable again exactly
\* by the users who have not redeemed it while uses are left.  No other record,
\* account or redemption set changes.  On a code that does not exist the call
\* fails with the not-found error and no record is created.
C27_SetActiveFrame ==
    [][/\ \A p \in Procs :
            ActiveFlip(p) =>
               LET c == proc[p].code
               IN  /\ code[c].exists /\ code'[c].exists
                   /\ code'[c].active = proc[p].active
                   /\ code'[c].credits = code[c].credits
                   /\ code'[c].maxUses = code[c].maxUses
                   /\ code'[c].usedCount = code[c].usedCount
                   /\ code'[c].createdAt = code[c].createdAt
                   /\ \A d \in Codes \ {c} : code'[d] = code[d]
                   /\ UNCHANGED <<user, redeemed>>
                   /\ proc[p].active = 1 =>
                         \A u \in Users :
                            Redeemable(u, c)' <=>
                               (c \notin redeemed[u] /\ code[c].usedCount < code[c].maxUses)
       /\ (ret'.op = "setActive" /\ ret'.error = ErrNotFound) =>
               /\ UNCHANGED <<user, redeemed, code>>
               /\ ret'.code \in Codes => ~code'[ret'.code].exists
               /\ ~ret'.ok]_vars

\* a code with a use on record and uses left has just been switched on again
C27_Witness ==
    \E p \in Procs :
        /\ proc[p].pc = "activeGet" /\ proc[p].active = 1
        /\ code[proc[p].code].active = 1
        /\ code[proc[p].code].usedCount = 1
        /\ code[proc[p].code].maxUses = 2

\* C28: a grant adds exactly max(1, floor(credits)) to the user's paidCredits in
\* one transaction, leaves freeUsed as it was (a missing account is created with
\* freeUsed = 0), touches nothing else, and returns the snapshot of the updated
\* counters -- through the engine function called directly and through the admin
\* credits route, whose credits are floor(body.credits).  The route answers 400
\* exactly when floor(body.credits) <= 0, and then without a step into the ledger.
C28_GrantExact ==
    [][/\ \A u \in Users :
            (ret'.uid = u /\ ret'.ok /\ ret'.op \in {"grant", "adminCredits"}) =>
               /\ ret'.credits >= 1
               /\ PaidOf(u)' = PaidOf(u) + ret'.credits
               /\ FreeUsedOf(u)' = FreeUsedOf(u)
               /\ user'[u].exists
               /\ ret'.quota = snapshotFromValues(FreeUsedOf(u)', PaidOf(u)')
               /\ \A v \in Users \ {u} : user'[v] = user[v]
               /\ UNCHANGED <<redeemed, code>>
       /\ (ret'.op = "adminCredits" /\ ~ret'.ok) =>
               /\ ret'.status \in {400, 401}
               /\ ret'.status = 400 => ret'.credits <= 0
               /\ UNCHANGED <<user, redeemed, code, proc, initialized>>
       /\ \A p \in Procs : proc'[p].route = "credits" => proc'[p].credits >= 1]_vars

\* the route has granted 1 credit for body.credits = 1.5 to a user who had spent
\* free units, and the reply shows the new balance
C28_Witness ==
    \E u \in Users :
        /\ ret.op = "adminCredits" /\ ret.uid = u /\ ret.ok /\ ret.credits = 1
        /\ FreeUsedOf(u) = 3 /\ PaidOf(u) = 3
        /\ ret.quota = QuotaOf(5, 3)

\* the handler is inside createRedeemCodesBatch
InBatch(p) == proc[p].route = "batch"

\* no two places of the sequence hold the same code
Distinct(seq) == \A i, j \in 1..Len(seq) : seq[i] = seq[j] => i = j

\* every generated code is in the store
NoFreshCode == \A c \in BatchCodes : code[c].exists

\* C29: createRedeemCodesBatch returns exactly max(1, floor(count)) records with
\* pairwise distinct codes, none of which existed when the call was made and all
\* of which exist when it returns; each is written with usedCount = 0.  A
\* generated code that is in the store already is skipped and the loop goes on,
\* the batch never failing with the collision's error; any other failure of
\* createRedeemCode ends the batch at once with that error.  As long as the
\* generator has codes left that are not in the store, the call ends.
C29_Batch ==
    /\ [][\A p \in Procs :
            /\ (InBatch(p) /\ ~InBatch(p)') =>
                  /\ proc'[p] = Idle
                  /\ ret'.op = "batch"
                  /\ ret'.ok \/ ret'.error = ErrStore
                  /\ ret'.ok =>
                        /\ Len(ret'.result) = Max(1, proc[p].count)
                        /\ Distinct(ret'.result)
                        /\ \A i \in 1..Len(ret'.result) :
                              /\ ret'.result[i] \notin proc[p].before
                              /\ code'[ret'.result[i]].exists
            /\ (InBatch(p) /\ (Len(proc'[p].result) > Len(proc[p].result)
                                \/ (~InBatch(p)' /\ ret'.ok))) =>
                  /\ proc[p].code \notin proc[p].before
                  /\ code'[proc[p].code].exists
                  /\ code'[proc[p].code].usedCount = 0
            /\ (InBatch(p) /\ InBatch(p)') =>
                  /\ Len(proc'[p].result) < Max(1, proc[p].count)
                  /\ proc'[p].count = proc[p].count]_vars
    /\ \A p \in Procs : InBatch(p) ~> (~InBatch(p) \/ NoFreshCode)

\* a batch of two has returned after a turn that met an existing code
C29_Witness ==
    /\ ret.op = "batch" /\ ret.ok
    /\ Len(ret.result) = 2
    /\ ret.retries >= 1
    /\ \A i \in 1..2 : code[ret.result[i]].exists

\* C30: the store connection is opened lazily and shared.  At most one connection
\* attempt is under way at any time, it is the one the marker names, and a marker
\* never outlives its attempt, so that after a failure the next call starts a new
\* attempt; all callers waiting at the same time wait for the same attempt and are
\* given its client; no attempt is started, and no caller made to wait, while a
\* client is open: every call then returns that client.
C30_SharedConnection ==
    /\ [](/\ Cardinality(conn.inflight) <= 1
          /\ conn.connectPromise # NoClient <=> conn.inflight = {conn.connectPromise}
          /\ \A p, q \in Procs :
                (conn.waiting[p] # NoClient /\ conn.waiting[q] # NoClient)
                    => conn.waiting[p] = conn.waiting[q]
          /\ \A p \in Procs :
                conn.waiting[p] # NoClient => conn.waiting[p] = conn.connectPromise)
    /\ [][/\ (conn.client # NoClient /\ conn.isOpen /\ conn'.got # conn.got) =>
                /\ \A p \in Procs : conn'.got[p] # conn.got[p] => conn'.got[p] = conn.client
                /\ conn'.made = conn.made /\ conn'.inflight = conn.inflight
                /\ conn'.client = conn.client /\ conn'.isOpen
          /\ \A p \in Procs :
                (conn.waiting[p] # NoClient /\ conn'.waiting[p] = NoClient) =>
                    /\ conn'.connectPromise = NoClient
                    /\ \/ conn'.got[p] = ConnFailed
                       \/ conn'.got[p] = conn.waiting[p] /\ conn'.client = conn.waiting[p]
                                                        /\ conn'.isOpen
          /\ conn'.made > conn.made =>
                /\ conn.inflight = {} /\ conn.connectPromise = NoClient
                /\ ~(conn.client # NoClient /\ conn.isOpen)]_vars

\* a second attempt was started after the first had ended, it succeeded, and
\* every caller holds its client
C30_Witness ==
    /\ conn.made = 2 /\ conn.client = 2 /\ conn.isOpen
    /\ conn.inflight = {} /\ conn.connectPromise = NoClient
    /\ \A p \in Procs : conn.got[p] = 2

\* C31: at most one refund per consume.  In every execution of the generateImage
\* handler, a refund call that failed after the store applied it included, at most
\* one refund is applied to the ledger for the credit the request consumed, and
\* none for a request that consumed nothing.
C31_AtMostOneRefund ==
    /\ \A p \in Procs :
          /\ proc[p].applied <= 1
          /\ proc[p].from \notin {"free", "paid"} => proc[p].applied = 0
    /\ ret.applied <= 1

\* the counters of an account, as a pair
Counters(u) == <<FreeUsedOf(u), PaidOf(u)>>

\* what one operation, run alone on counters <<f, paid>>, leaves and answers
SerialConsume(f, paid) ==
    IF f < FREE_QUOTA_LIMIT THEN [ok |-> TRUE, from |-> "free", next |-> <<f + 1, paid>>]
    ELSE IF paid > 0 THEN [ok |-> TRUE, from |-> "paid", next |-> <<f, paid - 1>>]
    ELSE [ok |-> FALSE, from |-> "undefined", next |-> <<f, paid>>]

SerialRefund(f, paid, from) ==
    IF from = "paid" THEN <<f, paid + 1>> ELSE <<Max(0, f - 1), paid>>

\* C32: no lost update.  Whatever the interleaving of the handlers, every consume,
\* refund, grant and redemption of a user is applied to the counters the operation
\* before it left and answers from them, as in a sequential run of the same
\* operations in the order of their transactions; between two of them the
\* counters do not change; and a refused redemption, which reads its snapshot
\* after its transaction, answers what a redemption run at that read would answer.
C32_NoLostUpdate ==
    [][\A u \in ClockUsers :
         LET f == FreeUsedOf(u)
             paid == PaidOf(u)
             mine == ret'.uid = u
             sc == SerialConsume(f, paid)
         IN  /\ (mine /\ ret'.op = "consume") =>
                   /\ ret'.ok = sc.ok /\ ret'.from = sc.from
                   /\ Counters(u)' = sc.next
                   /\ ret'.quota = snapshotFromValues(sc.next[1], sc.next[2])
             /\ (mine /\ ret'.op = "refund") =>
                   /\ Counters(u)' = SerialRefund(f, paid, ret'.from)
                   /\ ret'.quota = snapshotFromValues(FreeUsedOf(u)', PaidOf(u)')
             /\ (mine /\ ret'.op = "grant") =>
                   /\ Counters(u)' = <<f, paid + ret'.credits>>
                   /\ ret'.quota = snapshotFromValues(f, paid + ret'.credits)
             /\ (mine /\ ret'.op = "redeem" /\ ret'.ok) =>
                   /\ Counters(u)' = <<f, paid + ret'.credits>>
                   /\ ret'.credits = code[ret'.code].credits
                   /\ Redeemable(u, ret'.code)
                   /\ ret'.quota = snapshotFromValues(f, paid + ret'.credits)
             /\ (mine /\ ret'.op = "redeem" /\ ~ret'.ok) =>
                   /\ Counters(u)' = <<f, paid>>
                   /\ ret'.quota = snapshotFromValues(f, paid)
                   /\ ret'.code # <<>> =>
                         /\ ~Redeemable(u, ret'.code)
                         /\ ret'.error = RedeemScript(user[u], redeemed[u], code[ret'.code],
                                                      ret'.code, clock).reply.error
             /\ ~(mine /\ ret'.op \in {"consume", "refund", "grant", "redeem"}) =>
                   Counters(u)' = Counters(u)]_vars

\* two handlers were inside calls for the same account at once, and the account
\* shows the sum of what they did: a redemption of 5 credits and a paid consume
C32_Witness ==
    \E u \in ClockUsers :
        /\ ret.op = "consume" /\ ret.uid = u /\ ret.ok /\ ret.from = "paid"
        /\ Counters(u) = <<FREE_QUOTA_LIMIT, 4>>
        /\ \E p \in Procs : proc[p].pc = "redeemSnap" /\ proc[p].uid = u

\* C33: redemption accounting.  In every reachable state the usedCount of every
\* code equals the number of users whose redemption set holds the code, and no
\* redemption set holds a code that is not in the store; usedCount never goes
\* down and no redemption set ever loses a code.
C33_RedemptionAccounting ==
    /\ [](\A c \in AllCodes :
             /\ HGetNum(code[c], "usedCount") = Cardinality(Redeemers(c))
             /\ Redeemers(c) # {} => code[c].exists)
    /\ [][/\ \A c \in AllCodes :
                HGetNum(code[c], "usedCount")' >= HGetNum(code[c], "usedCount")
          /\ \A u \in Users : redeemed[u] \subseteq redeemed'[u]]_vars

\* C34: key-layout disjointness.  For all accepted user ids u and v the account
\* key of u differs from the redemption-set key of v; so no key that is some
\* user's redemption-set key ever holds an account, no engine call fails on a key
\* of the wrong type, and the admin statistics count every account once: userCount
\* is the number of accounts in the store and totalPaidCredits their sum.
C34_KeyLayoutDisjoint ==
    /\ [](/\ \A u, v \in KeyUsers : userKey(u) # userRedeemSetKey(v)
          /\ \A v \in KeyUsers : ~HoldsHash(userRedeemSetKey(v))
          /\ ret.error # ErrWrongType)
    /\ [][ret'.op = "stats" =>
             /\ ret'.stats.userCount = Cardinality({v \in AllUsers : user[v].exists})
             /\ ret'.stats.totalPaidCredits = SumPaid({v \in AllUsers : user[v].exists})]_vars

CarriedTokens(a) ==
    (IF Len(a.authorization) > 0 /\ Head(a.authorization) = "Bearer "
     THEN {Trim(Tail(a.authorization))} ELSE {})
        \cup {Trim(a.xtoken)}

\* C36: every admin handler starts with the gate.  A handler leaves its idle
\* state only by a gate step that let it through, and the gate lets a request
\* through only if ADMIN_API_TOKEN is not blank and the request carries that
\* token, non-empty, as Bearer token or as x-admin-token; a request that carries
\* no such token is answered 401, every request is answered 500 while
\* ADMIN_API_TOKEN is unset or blank, and the 401 and 500 steps leave the
\* ledger and every handler as they were.  Every step that reads or writes the
\* ledger is the step of a handler that was let through.
C36_AdminGate ==
    [][/\ ret'.op = "requireAdmin" =>
            LET a == ret'.auth
                expected == Trim(a.env)
            IN  /\ ret'.status \in {0, 401, 500}
                /\ expected = <<>> => ret'.status = 500
                /\ expected # <<>> /\ expected \notin CarriedTokens(a) => ret'.status = 401
                /\ ret'.status = 0 => expected # <<>> /\ expected \in CarriedTokens(a)
                /\ ret'.status # 0 => UNCHANGED <<user, redeemed, code, initialized, proc>>
                /\ UNCHANGED <<user, redeemed, code, initialized>>
       /\ \A p \in Procs :
            proc[p] = Idle /\ proc'[p] # Idle =>
                /\ ret'.op = "requireAdmin" /\ ret'.status = 0
                /\ \E r \in AdminRoutes : proc'[p] = [Idle EXCEPT !.route = r]
       /\ ret'.op # "requireAdmin" =>
            \E p \in Procs : proc[p] # Idle
                             /\ \A q \in Procs \ {p} : proc'[q] = proc[q]]_vars

\* a request with a wrong Bearer token and the right x-admin-token was just
\* refused with 401, after an earlier request had created a code and another
\* had granted a credit
C36_Witness ==
    /\ ret.op = "requireAdmin" /\ ret.status = 401
    /\ ret.auth.authorization = <<"Bearer ", "x">> /\ ret.auth.xtoken = <<"t">>
    /\ Trim(ret.auth.env) = <<"t">>
    /\ code[<<"A">>].exists /\ PaidOf("u1") = 1
    /\ \A p \in Procs : proc[p] = Idle

\* the code that a raw code names, by the rule "the same but for the case of its
\* letters and the blanks around it", for the spellings in play
Canon(rawCode) ==
    CASE rawCode \in { <<"s">>, <<" ", "S">>, <<"s", " ">>, <<"S">> } -> <<"S">>
      [] rawCode \in { <<"a">>, <<" ", "A", " ">>, <<"A">> } -> <<"A">>
      [] OTHER -> <<>>

\* what every first step of an engine call by handler p shows: p is past
\* ensureInitialized, the other handlers stay where they are, and the step
\* returns under the call's name or leaves p at the call's next store access
Entered(p, op, pc) ==
    /\ Passed(p)
    /\ \A q \in Procs \ {p} : proc'[q] = proc[q]
    /\ (ret'.op = op /\ proc'[p] = Idle) \/ (ret'.op = "none" /\ proc'[p].pc = pc)

\* normalizing twice is normalizing once, and the result is the code's name
NormalizeOnce ==
    \A r \in NormRaws :
        /\ normalizeCode(normalizeCode(r)) = normalizeCode(r)
        /\ normalizeCode(r) = Canon(r)
        /\ normalizeCode(Canon(r)) = Canon(r)

\* C37: normalizeCode is idempotent and gives every spelling of a code the one
\* string that names its record.  A redemption of a code the user has redeemed,
\* in any spelling, is refused (as already redeemed if the code is active) and
\* changes nothing; createRedeemCode of any spelling of a code the store holds
\* fails as a duplicate and writes nothing, and of a code it does not hold goes on
\* to write that code's record; getRedeemCode and setRedeemCodeActive of any
\* spelling of a stored code reach that code's record.
C37_NormalizationIdentity ==
    [][/\ NormalizeOnce
       /\ \A p \in Procs, r \in NormRaws :
            LET c == Canon(r)
            IN  c # <<>> =>
                /\ \A u \in ClockUsers :
                      c \in redeemed[u] /\ Entered(p, "redeem", "redeemSnap")
                            /\ redeemCodeForUser(p, u, r) =>
                          /\ UNCHANGED <<user, redeemed, code>>
                          /\ proc'[p].pc = "redeemSnap" /\ proc'[p].code = c
                          /\ isTruthy(code[c].active) => proc'[p].err = ErrAlready
                /\ \A creditsIn \in CreditInputs :
                      Entered(p, "create", "createSet")
                            /\ createRedeemCode(p, r, creditsIn, Absent, "absent") =>
                          IF code[c].exists
                          THEN /\ ret'.error = ErrExists /\ ret'.code = c /\ ~ret'.ok
                               /\ proc'[p] = Idle
                          ELSE proc'[p].pc = "createSet" /\ proc'[p].code = c
                /\ code[c].exists /\ Entered(p, "get", "idle") /\ getRedeemCode(p, r) =>
                      ret'.ok /\ ret'.code = c /\ ret'.rec = code[c]
                /\ \A active \in BOOLEAN :
                      code[c].exists /\ Entered(p, "setActive", "activeSet")
                            /\ setRedeemCodeActive(p, r, active) =>
                          proc'[p].pc = "activeSet" /\ proc'[p].code = c
       /\ (ret'.op = "redeem" /\ ret'.error = ErrAlready) =>
            /\ ret'.code = Canon(ret'.raw) /\ ret'.code \in redeemed[ret'.uid]
            /\ UNCHANGED <<user, redeemed, code>>
       /\ (ret'.op = "create" /\ ret'.error = ErrExists) =>
            /\ ret'.code = Canon(ret'.raw) /\ UNCHANGED code]_vars

\* the user holds the seeded code "S", and a redemption spelled " S" was just
\* refused as already redeemed; the record was created under the spelling "a"
\* of another code
C37_Witness ==
    /\ ret.op = "redeem" /\ ret.error = ErrAlready
    /\ ret.raw = <<" ", "S">> /\ ret.code = <<"S">>
    /\ <<"S">> \in redeemed[ret.uid] /\ PaidOf(ret.uid) = 5
    /\ code[<<"A">>].exists

====
